---- MODULE Spec2Model ----
(***************************************************************************)
(* The in-DAW sidecar of gojira-reaper-sidecar: the network thread         *)
(* (reaper_gojira_dll/src/net.rs), the main-loop tick                      *)
(* (reaper_gojira_dll/src/main_loop.rs), the instance resolver             *)
(* (reaper_gojira_dll/src/resolver.rs) and the DAW behind the ReaperApi    *)
(* capability, as one state machine.                                       *)
(*                                                                         *)
(* Parameter values are f32 in the code; here they are integers in         *)
(* thousandths (One = 1.0), with NonFinite standing for +inf / NaN.        *)
(***************************************************************************)
EXTENDS Integers, Sequences, FiniteSets, TLC

\* ------------------------------------------------------------------ bounds

\* Capacity of the inbound channel (INBOUND_CAP = 256 in the code), scaled down.
InboundCap == 3
\* Capacity of the outbound channel (OUTBOUND_CAP = 256 in the code), scaled down.
OutboundCap == 2
\* Number of connections the listener accepts in one behaviour.
MaxSessions == 2
\* Number of authorized commands clients issue in one behaviour.
MaxCmds == 2
\* Number of project state changes the user makes in one behaviour.
MaxChanges == 1
\* A DAW write may fail at the 1st .. MaxFailPos-th write of a batch.
MaxFailPos == 2
\* Granularity of the clock, in milliseconds.
StepMs == 500
\* Longest parameter list given to sanitize and to the cleaner on their own.
MaxParams == 3
\* Number of project state changes in a burst (the watchdog's specification).
BurstChanges == 3
\* Granularity of the clock during a burst, in milliseconds.
BurstStepMs == 100

\* --------------------------------------------------------------- constants

PROJECT_CHANGED_DEBOUNCE == 500
MAX_PARAM_INDEX == 4096
\* 1.0 in thousandths: the upper end of clamp(0.0, 1.0).
One == 1000
\* A value for which f32::is_finite is false.
NonFinite == 1000000
\* Option<String>::None for a session token.
NoToken == 0
\* A token no session ever had ("WRONG" in the round-trip test).
WrongToken == -1
\* count_tracks() of the project: one track, as in the mock API.
TrackCount == 1

\* GUIDs of the target-plugin instances the user can insert on the track.
Guids == {"F1"}
\* A target_fx_guid that no FX of the project has.
UnknownGuid == "F0"

Min(a, b) == IF a < b THEN a ELSE b

P(i, v) == [index |-> i, value |-> v]

\* ------------------------------------------------------- pure: the pipeline

\* f32::clamp(0.0, 1.0)
Clamp01(v) == IF v < 0 THEN 0 ELSE IF v > One THEN One ELSE v

IsFinite(v) == v # NonFinite

\* The first pass of sanitize_params: position of the first entry that makes it
\* return Err (index out of range, or non-finite value), 0 when there is none.
RECURSIVE FirstInvalid(_, _)
FirstInvalid(params, i) ==
    IF i > Len(params) THEN 0
    ELSE IF params[i].index < 0 \/ params[i].index > MAX_PARAM_INDEX THEN i
    ELSE IF ~IsFinite(params[i].value) THEN i
    ELSE FirstInvalid(params, i + 1)

\* last_by_index after the first pass: the clamped value of the last occurrence.
RECURSIVE LastByIndex(_, _, _)
LastByIndex(params, i, acc) ==
    IF i > Len(params) THEN acc
    ELSE LastByIndex(params, i + 1,
            [k \in DOMAIN acc \cup {params[i].index} |->
                IF k = params[i].index THEN Clamp01(params[i].value) ELSE acc[k]])

\* Variant of the second pass that keeps the entries in the order of their first
\* occurrences.
RECURSIVE KeepLast_FirstOccurrenceOrder(_, _, _, _, _)
KeepLast_FirstOccurrenceOrder(params, i, seen, byIndex, out) ==
    IF i = 0 THEN out
    ELSE LET k == Len(params) + 1 - i
         IN  IF params[k].index \in seen
             THEN KeepLast_FirstOccurrenceOrder(params, i - 1, seen, byIndex, out)
             ELSE KeepLast_FirstOccurrenceOrder(params, i - 1,
                       seen \cup {params[k].index}, byIndex,
                       Append(out, P(params[k].index, byIndex[params[k].index])))

\* The second pass: walk the list in reverse, keep the first sight of each index,
\* then reverse the result (built here by prepending).
RECURSIVE KeepLast(_, _, _, _, _)
KeepLast(params, i, seen, byIndex, out) ==
    IF i = 0 THEN out
    ELSE IF params[i].index \in seen
         THEN KeepLast(params, i - 1, seen, byIndex, out)
         ELSE KeepLast(params, i - 1, seen \cup {params[i].index}, byIndex,
                       <<P(params[i].index, byIndex[params[i].index])>> \o out)

\* sanitize_params: [ok |-> FALSE, at |-> position] or [ok |-> TRUE, out |-> list]
sanitize_params(params) ==
    LET bad == FirstInvalid(params, 1)
    IN  IF bad # 0
        THEN [ok |-> FALSE, at |-> bad, out |-> <<>>]
        ELSE [ok |-> TRUE, at |-> 0,
              out |-> KeepLast(params, Len(params), {},
                               LastByIndex(params, 1, <<>>), <<>>)]

SeqToSet(s) == {s[i] : i \in 1..Len(s)}

MODULES ==
    << [bypass |-> <<3, 4>>, params |-> <<3, 4, 6>>],
       [bypass |-> <<8>>,    params |-> <<8, 9, 10, 11>>],
       [bypass |-> <<13>>,   params |-> <<13, 14, 15, 16>>],
       [bypass |-> <<17>>,   params |-> <<17, 18, 19, 20>>],
       [bypass |-> <<21>>,   params |-> <<21, 22>>],
       [bypass |-> <<23>>,   params |-> <<23, 24, 25, 27>>],
       [bypass |-> <<101>>,  params |-> <<101, 105, 106, 108>>],
       [bypass |-> <<112>>,  params |-> <<112, 114, 115, 116, 117>>] >>

\* Variant of touched_modules in which a bypass parameter touches its module too.
touched_modules_CountsBypass(params) ==
    { m \in 1..Len(MODULES) :
        \E i \in 1..Len(params) :
            params[i].index \in SeqToSet(MODULES[m].params) }

touched_modules(params) ==
    { m \in 1..Len(MODULES) :
        \E i \in 1..Len(params) :
            /\ params[i].index \in SeqToSet(MODULES[m].params)
            /\ params[i].index \notin SeqToSet(MODULES[m].bypass) }

\* Variant of the cleaner's loops that forces every bypass of an untouched module
\* off, whether or not the input sets it.
RECURSIVE CleanerLoop_IgnoreAlreadySet(_, _, _, _, _)
CleanerLoop_IgnoreAlreadySet(m, b, touched, already_set, out) ==
    IF m > Len(MODULES) THEN out
    ELSE IF m \in touched \/ b > Len(MODULES[m].bypass)
         THEN CleanerLoop_IgnoreAlreadySet(m + 1, 1, touched, already_set, out)
         ELSE CleanerLoop_IgnoreAlreadySet(m, b + 1, touched, already_set,
                  Append(out, P(MODULES[m].bypass[b], 0)))

\* The loops of apply_replace_active_cleaner: module m, bypass position b.
RECURSIVE CleanerLoop(_, _, _, _, _)
CleanerLoop(m, b, touched, already_set, out) ==
    IF m > Len(MODULES) THEN out
    ELSE IF m \in touched \/ b > Len(MODULES[m].bypass)
         THEN CleanerLoop(m + 1, 1, touched, already_set, out)
         ELSE LET bypass_idx == MODULES[m].bypass[b]
              IN  IF bypass_idx \in already_set
                  THEN CleanerLoop(m, b + 1, touched, already_set, out)
                  ELSE CleanerLoop(m, b + 1, touched, already_set \cup {bypass_idx},
                                   Append(out, P(bypass_idx, 0)))

apply_replace_active_cleaner(params) ==
    CleanerLoop(1, 1, touched_modules(params),
                {params[i].index : i \in 1..Len(params)}, params)

\* The main loop's clean step: the cleaner runs for ReplaceActive only.
server_clean(mode, params) ==
    IF mode = "replace_active" THEN apply_replace_active_cleaner(params)
    ELSE params

\* --------------------------------- pure: the client's pipeline (brain_core)

\* Variant of the client's sanitize loop that leaves out the final reverse.
RECURSIVE ClientSanitizeLoop_NoReverse(_, _, _, _)
ClientSanitizeLoop_NoReverse(params, i, seen, out) ==
    IF i = 0 THEN [ok |-> TRUE, at |-> 0, out |-> out]
    ELSE IF params[i].index \in seen
    THEN ClientSanitizeLoop_NoReverse(params, i - 1, seen, out)
    ELSE IF params[i].index < 0 \/ params[i].index > MAX_PARAM_INDEX
    THEN [ok |-> FALSE, at |-> i, out |-> <<>>]
    ELSE IF ~IsFinite(params[i].value)
    THEN [ok |-> FALSE, at |-> i, out |-> <<>>]
    ELSE ClientSanitizeLoop_NoReverse(params, i - 1, seen \cup {params[i].index},
            Append(out, P(params[i].index, Clamp01(params[i].value))))

\* The loop of the client's sanitize_params: the list is walked in reverse, an
\* index seen before is skipped, and only then are the index and the value
\* checked; the output is reversed at the end (built here by prepending).
RECURSIVE ClientSanitizeLoop(_, _, _, _)
ClientSanitizeLoop(params, i, seen, out) ==
    IF i = 0 THEN [ok |-> TRUE, at |-> 0, out |-> out]
    ELSE IF params[i].index \in seen
    THEN ClientSanitizeLoop(params, i - 1, seen, out)
    ELSE IF params[i].index < 0 \/ params[i].index > MAX_PARAM_INDEX
    THEN [ok |-> FALSE, at |-> i, out |-> <<>>]
    ELSE IF ~IsFinite(params[i].value)
    THEN [ok |-> FALSE, at |-> i, out |-> <<>>]
    ELSE ClientSanitizeLoop(params, i - 1, seen \cup {params[i].index},
            <<P(params[i].index, Clamp01(params[i].value))>> \o out)

client_sanitize_params(params) ==
    ClientSanitizeLoop(params, Len(params), {}, <<>>)

\* touches_any(v, start, end)
touches_any(v, start, end) ==
    \E i \in 1..Len(v) : v[i].index \in start..end

\* The section toggles the client's cleaner ensures, in the order of the code:
\* index and the condition under which it is ensured (with value 1.0).
Ensures(params) ==
    LET already_set == {params[i].index : i \in 1..Len(params)}
    IN  << [index |-> 52, when |-> touches_any(params, 53, 82)],
           [index |-> 53, when |-> touches_any(params, 54, 62) \/ 53 \in already_set],
           [index |-> 63, when |-> touches_any(params, 64, 72) \/ 63 \in already_set],
           [index |-> 73, when |-> touches_any(params, 74, 82) \/ 73 \in already_set],
           [index |-> 83, when |-> touches_any(params, 84, 99)],
           [index |-> 86, when |-> touches_any(params, 87, 92) \/ 86 \in already_set],
           [index |-> 93, when |-> touches_any(params, 94, 99) \/ 93 \in already_set] >>

\* The calls of ensure, from the e-th on: [out, already_set] after them.
RECURSIVE EnsureLoop(_, _, _, _)
EnsureLoop(ens, e, already_set, out) ==
    IF e > Len(ens) THEN [out |-> out, already_set |-> already_set]
    ELSE IF ens[e].when /\ ens[e].index \notin already_set
    THEN EnsureLoop(ens, e + 1, already_set \cup {ens[e].index},
                    Append(out, P(ens[e].index, One)))
    ELSE EnsureLoop(ens, e + 1, already_set, out)

\* The client's apply_replace_active_cleaner(mode, params); its MODULES table and
\* its module loop are those of the main loop's copy.
client_apply_replace_active_cleaner(mode, params) ==
    IF mode # "replace_active" THEN params
    ELSE LET ensured == EnsureLoop(Ensures(params), 1,
                                   {params[i].index : i \in 1..Len(params)},
                                   params)
         IN  CleanerLoop(1, 1, touched_modules(params),
                         ensured.already_set, ensured.out)

\* ------------------------------------------------------- pure: the resolver

\* FxLookup: fx_guid -> slot on the (single) track.
EmptyLookup == <<>>

\* scan_project_instances over the track's FX chain: every FX is a target-plugin
\* instance; the lookup maps each GUID to its slot (slots are 0-based in the code,
\* 1-based here), a later slot overwriting an earlier one with the same GUID.
scan_project_instances(chain) ==
    [instances |-> chain,
     lookup |-> [g \in SeqToSet(chain) |->
                    CHOOSE s \in 1..Len(chain) :
                        /\ chain[s] = g
                        /\ \A t \in 1..Len(chain) : chain[t] = g => t <= s]]

\* verify_fx_guid: the GUID read at the slot equals the target.
verify_fx_guid(chain, slot, target) ==
    slot \in 1..Len(chain) /\ chain[slot] = target

\* Variant of resolve_fx that trusts a cached slot as long as some FX is there.
resolve_fx_TrustCache(chain, cache, target) ==
    IF target \in DOMAIN cache /\ cache[target] \in 1..Len(chain)
    THEN [ok |-> TRUE, slot |-> cache[target], cache |-> cache, scans |-> 0]
    ELSE LET fresh == scan_project_instances(chain).lookup
         IN  IF target \in DOMAIN fresh /\ verify_fx_guid(chain, fresh[target], target)
             THEN [ok |-> TRUE, slot |-> fresh[target], cache |-> fresh, scans |-> 1]
             ELSE [ok |-> FALSE, slot |-> 0, cache |-> fresh, scans |-> 1]

\* resolve_fx: cache hit that verifies; else one rescan replaces the cache and the
\* lookup is retried once.
resolve_fx(chain, cache, target) ==
    IF target \in DOMAIN cache /\ verify_fx_guid(chain, cache[target], target)
    THEN [ok |-> TRUE, slot |-> cache[target], cache |-> cache, scans |-> 0]
    ELSE LET fresh == scan_project_instances(chain).lookup
         IN  IF target \in DOMAIN fresh /\ verify_fx_guid(chain, fresh[target], target)
             THEN [ok |-> TRUE, slot |-> fresh[target], cache |-> fresh, scans |-> 1]
             ELSE [ok |-> FALSE, slot |-> 0, cache |-> fresh, scans |-> 1]


\* ---------------------------------------------------------------- messages

ClientConnected(t) == [type |-> "ClientConnected", tok |-> t]
ClientDisconnected == [type |-> "ClientDisconnected"]
Command(c) == [type |-> "Command", cmd |-> c]

HandshakeAck(t) == [kind |-> "HandshakeAck", tok |-> t]
RefreshInstances(t) == [kind |-> "RefreshInstances", tok |-> t]
SetTone(t, id, tone) ==
    [kind |-> "SetTone", tok |-> t, id |-> id, guid |-> tone.guid,
     mode |-> tone.mode, params |-> tone.params]
NoCommand == [kind |-> "None"]

\* ServerMessage. The Handshake's validation_report is kept as "is it non-empty";
\* the Ack carries the command_id only (main_loop.rs builds Ack { command_id }, so
\* applied_params is the protocol's serde default, the empty list).
Handshake(t, instances, report) ==
    [type |-> "handshake", tok |-> t, instances |-> instances, report |-> report]
ProjectChanged == [type |-> "project_changed"]
Ack(id) == [type |-> "ack", id |-> id, applied_params |-> <<>>]
\* `at` is the parameter index the message names (0 when it names none).
Error(code, at) == [type |-> "error", code |-> code, at |-> at]

\* The SetTone payloads a client chooses from.
ToneMenu ==
    << [guid |-> "F1", mode |-> "merge",
        params |-> <<P(2, -300), P(30, 420), P(2, 1400)>>],
       [guid |-> "F1", mode |-> "replace_active", params |-> <<P(14, 800)>>],
       [guid |-> "F1", mode |-> "merge",
        params |-> <<P(30, 420), P(5000, 500), P(2, NonFinite)>>],
       [guid |-> UnknownGuid, mode |-> "merge", params |-> <<P(30, 420)>>] >>

\* -------------------------------------------------------------------- state

VARIABLES
    \* network thread (net.rs, run_server)
    active,                     \* ActiveClient.session_token, NoToken when None
    netpc,                      \* "accept" | "drain" | "read": place in the loop
    nextTok,                    \* tokens minted so far
    \* the two bounded channels
    inbound, outbound,
    \* MainLoop and its GojiraCache
    active_session_token, validation_ready, lookup,
    last_project_change_count, last_track_count, last_total_fx_count,
    elapsed,                    \* now - last_broadcast_time, saturating at the debounce
    \* the DAW behind ReaperApi
    chain,                      \* FX GUIDs of the track, by slot
    fxparams,                   \* per FX GUID: parameter index -> value
    proj_state,                 \* project_state_change_count()
    \* environment: GOJIRA_SEND_VALIDATION_REPORT is set to a true value
    reportEnabled,
    \* the UI client (src-tauri AppState)
    index_remap,                \* canonical index -> actual index
    param_cache,                \* per FX GUID: the parameters last sent
    \* the plugin's unload (lib.rs) and the GUI's websocket actor (ws_actor.rs)
    lifecycle,                  \* SHUTDOWN, the network thread's flag, place in shutdown()
    actor,                      \* the actor's locals, its command queue and backlog
    \* the client of the active connection
    hsSeen,                     \* it has received the Handshake with its token
    firstMsg,                   \* the first server message it received: "none",
                                \* "handshake" (with its token) or "other"
    nextCmd,                    \* command ids used so far
    \* history
    acked,                      \* tokens whose HandshakeAck the main loop drained
    readySessions,              \* tokens whose Handshake set validation_ready
    last                        \* what the last step did

netVars == <<active, netpc, nextTok>>
chanVars == <<inbound, outbound>>
mainVars == <<active_session_token, validation_ready, lookup,
              last_project_change_count, last_track_count, last_total_fx_count>>
dawVars == <<chain, fxparams, proj_state>>
clientVars == <<hsSeen, firstMsg>>
uiVars == <<index_remap, param_cache>>
sideVars == <<lifecycle, actor>>

\* The plugin is loaded: SHUTDOWN and the network thread's flag are false, the
\* timer is registered. client_at_start, closed_at_exit, queued and delivered
\* are history: the client connected when shutdown() began, the client whose
\* socket run_server closed on its way out, what became of the final Error's
\* try_send, and whether a client received it.
Running ==
    [SHUTDOWN |-> FALSE, net_shutdown |-> FALSE, pc |-> "running", timer |-> TRUE,
     client_at_start |-> NoToken, closed_at_exit |-> NoToken, queued |-> "none",
     delivered |-> FALSE]

\* The actor at the start of run(): it wants a connection and has none; nothing
\* is queued. hs is history: the token of the last Handshake received on the
\* current connection.
ActorStart ==
    [desired_connected |-> TRUE, pc |-> "connecting", conn |-> 0,
     session_token |-> NoToken, pending_set_tone |-> NoCommand,
     rx |-> <<>>, backlog |-> <<>>, hs |-> NoToken]
histVars == <<acked, readySessions>>
vars == <<netVars, chanVars, mainVars, elapsed, dawVars, reportEnabled, uiVars, sideVars,
          clientVars, nextCmd, histVars, last>>

Init ==
    /\ active = NoToken
    /\ netpc = "accept"
    /\ nextTok = 0
    /\ inbound = <<>>
    /\ outbound = <<>>
    /\ active_session_token = NoToken
    /\ validation_ready = FALSE
    /\ lookup = EmptyLookup
    /\ last_project_change_count = 0
    /\ last_track_count = -1
    /\ last_total_fx_count = -1
    \* Instant::now().checked_sub(DEBOUNCE).unwrap_or_else(Instant::now)
    /\ elapsed = PROJECT_CHANGED_DEBOUNCE
    \* the project the plugin is loaded into: with or without an instance
    /\ chain \in {<<>>, <<"F1">>}
    /\ fxparams = [g \in Guids |-> <<>>]
    /\ proj_state = 0
    /\ reportEnabled \in BOOLEAN
    /\ lifecycle = Running
    /\ actor = ActorStart
    /\ index_remap = <<>>
    /\ param_cache = [g \in Guids |-> <<>>]
    /\ hsSeen = FALSE
    /\ firstMsg = "none"
    /\ nextCmd = 0
    /\ acked = {}
    /\ readySessions = {}
    /\ last = [op |-> "init"]

\* crossbeam try_send on a bounded channel: dropped when the channel is full.
try_send(q, cap, m) == IF Len(q) < cap THEN Append(q, m) ELSE q

\* ----------------------------------------------------------- the main loop

\* MainLoop::send: try_send on the outbound channel; `sends` logs the call.
send(st, m) ==
    [st EXCEPT !.sends = Append(@, m),
               !.outbound = try_send(@, OutboundCap, m)]

\* Variant of the drain loop in which the first ClientConnected of a tick wins.
DrainStep_FirstConnectedWins(st, m) ==
    CASE m.type = "ClientConnected" ->
            [st EXCEPT !.connected_token = IF @ = NoToken THEN m.tok ELSE @,
                       !.connected = Append(@, m.tok)]
      [] m.type = "ClientDisconnected" ->
            [st EXCEPT !.active_session_token = NoToken,
                       !.validation_ready = FALSE,
                       !.lookup = EmptyLookup]
      [] m.type = "Command" ->
            CASE m.cmd.kind = "RefreshInstances" ->
                    [st EXCEPT !.refresh_instances = TRUE]
              [] m.cmd.kind = "SetTone" ->
                    [st EXCEPT !.last_set_tone = m.cmd,
                               !.tones = Append(@, m.cmd)]
              [] m.cmd.kind = "HandshakeAck" ->
                    [st EXCEPT !.acked = @ \cup {m.cmd.tok}]

\* Variant of the drain loop in which the first SetTone of a tick wins.
DrainStep_FirstSetToneWins(st, m) ==
    CASE m.type = "ClientConnected" ->
            [st EXCEPT !.connected_token = m.tok,
                       !.connected = Append(@, m.tok)]
      [] m.type = "ClientDisconnected" ->
            [st EXCEPT !.active_session_token = NoToken,
                       !.validation_ready = FALSE,
                       !.lookup = EmptyLookup]
      [] m.type = "Command" ->
            CASE m.cmd.kind = "RefreshInstances" ->
                    [st EXCEPT !.refresh_instances = TRUE]
              [] m.cmd.kind = "SetTone" ->
                    [st EXCEPT !.last_set_tone =
                                   IF @.kind = "SetTone" THEN @ ELSE m.cmd,
                               !.tones = Append(@, m.cmd)]
              [] m.cmd.kind = "HandshakeAck" ->
                    [st EXCEPT !.acked = @ \cup {m.cmd.tok}]

\* One iteration of the drain loop of tick.
DrainStep(st, m) ==
    CASE m.type = "ClientConnected" ->
            [st EXCEPT !.connected_token = m.tok,
                       !.connected = Append(@, m.tok)]
      [] m.type = "ClientDisconnected" ->
            [st EXCEPT !.active_session_token = NoToken,
                       !.validation_ready = FALSE,
                       !.lookup = EmptyLookup]
      [] m.type = "Command" ->
            CASE m.cmd.kind = "RefreshInstances" ->
                    [st EXCEPT !.refresh_instances = TRUE]
              [] m.cmd.kind = "SetTone" ->
                    [st EXCEPT !.last_set_tone = m.cmd,
                               !.tones = Append(@, m.cmd)]
              [] m.cmd.kind = "HandshakeAck" ->
                    [st EXCEPT !.acked = @ \cup {m.cmd.tok}]

RECURSIVE DrainLoop(_, _)
DrainLoop(q, st) ==
    IF q = <<>> THEN st ELSE DrainLoop(Tail(q), DrainStep(st, Head(q)))

\* validate_parameter_map: empty unless the report is enabled, else four entries.
validate_parameter_map(enabled) == enabled

\* Variant of refresh_and_handshake whose probe sets the delay mix to read its
\* label.
refresh_and_handshake_ProbeWrites(st, session_token) ==
    LET scan == scan_project_instances(chain)
        first == IF scan.instances = <<>> THEN [ok |-> FALSE, cache |-> scan.lookup,
                                                 scans |-> 0]
                 ELSE resolve_fx(chain, scan.lookup, scan.instances[1])
        report == first.ok /\ validate_parameter_map(reportEnabled)
        st1 == [st EXCEPT !.lookup = first.cache,
                          !.scans = @ \o <<"refresh">>
                                      \o [i \in 1..first.scans |-> "probe"],
                          !.probes = @ + (IF first.ok THEN 1 ELSE 0),
                          !.fxparams = IF first.ok
                                       THEN [@ EXCEPT ![chain[first.slot]] =
                                               (105 :> One) @@ @]
                                       ELSE @,
                          !.validation_ready = report,
                          !.readySessions =
                              IF report THEN @ \cup {session_token} ELSE @]
    IN  send(st1, Handshake(session_token, scan.instances, report))

\* MainLoop::refresh_and_handshake
refresh_and_handshake(st, session_token) ==
    LET scan == scan_project_instances(chain)
        first == IF scan.instances = <<>> THEN [ok |-> FALSE, cache |-> scan.lookup,
                                                 scans |-> 0]
                 ELSE resolve_fx(chain, scan.lookup, scan.instances[1])
        report == first.ok /\ validate_parameter_map(reportEnabled)
        st1 == [st EXCEPT !.lookup = first.cache,
                          !.scans = @ \o <<"refresh">>
                                      \o [i \in 1..first.scans |-> "probe"],
                          !.probes = @ + (IF first.ok THEN 1 ELSE 0),
                          !.validation_ready = report,
                          !.readySessions =
                              IF report THEN @ \cup {session_token} ELSE @]
    IN  send(st1, Handshake(session_token, scan.instances, report))

\* Variant of the watchdog without the debounce.
watchdog_NoDebounce(st) ==
    IF proj_state = st.last_project_change_count THEN st
    ELSE LET total_fx_count == Len(chain)
             instances_affected ==
                 \/ TrackCount # st.last_track_count
                 \/ total_fx_count # st.last_total_fx_count
             st1 == [st EXCEPT !.last_project_change_count = proj_state,
                               !.last_track_count = TrackCount,
                               !.last_total_fx_count = total_fx_count]
         IN  IF ~instances_affected THEN [st1 EXCEPT !.wd = "unaffected"]
             ELSE send([st1 EXCEPT !.elapsed = 0,
                                   !.lookup = EmptyLookup,
                                   !.validation_ready = FALSE,
                                   !.wd = "sent"],
                       ProjectChanged)

\* MainLoop::watchdog; `wd` logs the branch it took: "idle" (counter unchanged),
\* "unaffected" (counts unchanged), "debounced" or "sent".
watchdog(st) ==
    IF proj_state = st.last_project_change_count THEN st
    ELSE LET total_fx_count == Len(chain)
             instances_affected ==
                 \/ TrackCount # st.last_track_count
                 \/ total_fx_count # st.last_total_fx_count
             st1 == [st EXCEPT !.last_project_change_count = proj_state,
                               !.last_track_count = TrackCount,
                               !.last_total_fx_count = total_fx_count]
         IN  IF ~instances_affected THEN [st1 EXCEPT !.wd = "unaffected"]
             ELSE IF st.elapsed < PROJECT_CHANGED_DEBOUNCE
             THEN [st1 EXCEPT !.wd = "debounced"]
             ELSE send([st1 EXCEPT !.elapsed = 0,
                                   !.lookup = EmptyLookup,
                                   !.validation_ready = FALSE,
                                   !.wd = "sent"],
                       ProjectChanged)

\* The parameter store of one FX after the first n writes of the list.
WriteParams(old, params, n) ==
    [k \in DOMAIN old \cup {params[i].index : i \in 1..n} |->
        IF \E i \in 1..n : params[i].index = k
        THEN params[CHOOSE i \in 1..n :
                        /\ params[i].index = k
                        /\ \A j \in 1..n : params[j].index = k => j <= i].value
        ELSE old[k]]

\* Variant of the write loop that skips a failing write and goes on with the rest
\* of the batch before it reports the failure.
WriteLoop_ContinueAfterFailure(st, cmd, slot, params, failAt) ==
    LET failed == failAt # 0 /\ failAt <= Len(params)
        rest == [i \in 1..(Len(params) - 1) |->
                    IF i < failAt THEN params[i] ELSE params[i + 1]]
        done == IF failed THEN rest ELSE params
        st1 == [st EXCEPT
                  !.fxparams[chain[slot]] = WriteParams(@, done, Len(done)),
                  !.writes = [i \in 1..Len(params) |->
                                [guid |-> chain[slot], index |-> params[i].index,
                                 value |-> params[i].value,
                                 ok |-> ~(failed /\ i = failAt)]]]
    IN  IF failed
        THEN send(st1, Error("internal_error", params[failAt].index))
        ELSE send(st1, Ack(cmd.id))

\* Variant of the write loop that acknowledges even when a write failed.
WriteLoop_AckAfterFailure(st, cmd, slot, params, failAt) ==
    LET failed == failAt # 0 /\ failAt <= Len(params)
        n == IF failed THEN failAt - 1 ELSE Len(params)
        st1 == [st EXCEPT
                  !.fxparams[chain[slot]] = WriteParams(@, params, n),
                  !.writes = [i \in 1..(IF failed THEN failAt ELSE n) |->
                                [guid |-> chain[slot], index |-> params[i].index,
                                 value |-> params[i].value, ok |-> i <= n]]]
    IN  send(st1, Ack(cmd.id))

\* Variant of the write loop that reports a failed write and, lacking the return,
\* acknowledges the command as well.
WriteLoop_ErrorThenAck(st, cmd, slot, params, failAt) ==
    LET failed == failAt # 0 /\ failAt <= Len(params)
        n == IF failed THEN failAt - 1 ELSE Len(params)
        st1 == [st EXCEPT
                  !.fxparams[chain[slot]] = WriteParams(@, params, n),
                  !.writes = [i \in 1..(IF failed THEN failAt ELSE n) |->
                                [guid |-> chain[slot], index |-> params[i].index,
                                 value |-> params[i].value, ok |-> i <= n]]]
    IN  IF failed
        THEN send(send(st1, Error("internal_error", params[failAt].index)),
                  Ack(cmd.id))
        ELSE send(st1, Ack(cmd.id))

\* The write loop of apply_set_tone; track_fx_set_param fails at position failAt
\* (0: no write fails).
WriteLoop(st, cmd, slot, params, failAt) ==
    LET failed == failAt # 0 /\ failAt <= Len(params)
        n == IF failed THEN failAt - 1 ELSE Len(params)
        st1 == [st EXCEPT
                  !.fxparams[chain[slot]] = WriteParams(@, params, n),
                  !.writes = [i \in 1..(IF failed THEN failAt ELSE n) |->
                                [guid |-> chain[slot], index |-> params[i].index,
                                 value |-> params[i].value, ok |-> i <= n]]]
    IN  IF failed
        THEN send(st1, Error("internal_error", params[failAt].index))
        ELSE send(st1, Ack(cmd.id))

\* Variant of apply_set_tone that holds back a SetTone whose session has not
\* acknowledged the Handshake.
apply_set_tone_AckGated(st, cmd, failAt) ==
    IF cmd.tok \notin st.acked THEN st
    ELSE IF ~st.validation_ready THEN send(st, Error("not_ready", 0))
    ELSE LET r == resolve_fx(chain, st.lookup, cmd.guid)
             st1 == [st EXCEPT !.lookup = r.cache,
                               !.scans = @ \o [i \in 1..r.scans |-> "apply"]]
         IN  IF ~r.ok THEN send(st1, Error("target_not_found", 0))
             ELSE LET s == sanitize_params(cmd.params)
                  IN  IF ~s.ok
                      THEN send(st1, Error("invalid_value", cmd.params[s.at].index))
                      ELSE WriteLoop(st1, cmd, r.slot,
                                     IF cmd.mode = "replace_active"
                                     THEN apply_replace_active_cleaner(s.out)
                                     ELSE s.out,
                                     failAt)

\* Variant of apply_set_tone that validates each entry as it writes it: the
\* entries before the first invalid one reach the DAW.
apply_set_tone_ValidateWhileWriting(st, cmd, failAt) ==
    IF ~st.validation_ready THEN send(st, Error("not_ready", 0))
    ELSE LET r == resolve_fx(chain, st.lookup, cmd.guid)
             st1 == [st EXCEPT !.lookup = r.cache,
                               !.scans = @ \o [i \in 1..r.scans |-> "apply"]]
         IN  IF ~r.ok THEN send(st1, Error("target_not_found", 0))
             ELSE LET s == sanitize_params(cmd.params)
                      head == [i \in 1..(s.at - 1) |->
                                 P(cmd.params[i].index, Clamp01(cmd.params[i].value))]
                  IN  IF ~s.ok
                      THEN send([st1 EXCEPT
                                   !.fxparams[chain[r.slot]] =
                                       WriteParams(@, head, Len(head)),
                                   !.writes = [i \in 1..Len(head) |->
                                       [guid |-> chain[r.slot],
                                        index |-> head[i].index,
                                        value |-> head[i].value, ok |-> TRUE]]],
                                Error("invalid_value", cmd.params[s.at].index))
                      ELSE WriteLoop(st1, cmd, r.slot,
                                     IF cmd.mode = "replace_active"
                                     THEN apply_replace_active_cleaner(s.out)
                                     ELSE s.out,
                                     failAt)

\* MainLoop::apply_set_tone
apply_set_tone(st, cmd, failAt) ==
    IF ~st.validation_ready THEN send(st, Error("not_ready", 0))
    ELSE LET r == resolve_fx(chain, st.lookup, cmd.guid)
             st1 == [st EXCEPT !.lookup = r.cache,
                               !.scans = @ \o [i \in 1..r.scans |-> "apply"]]
         IN  IF ~r.ok THEN send(st1, Error("target_not_found", 0))
             ELSE LET s == sanitize_params(cmd.params)
                  IN  IF ~s.ok
                      THEN send(st1, Error("invalid_value", cmd.params[s.at].index))
                      ELSE WriteLoop(st1, cmd, r.slot,
                                     IF cmd.mode = "replace_active"
                                     THEN apply_replace_active_cleaner(s.out)
                                     ELSE s.out,
                                     failAt)

\* The part of tick after the drain loop: handshake, watchdog, SetTone.
AfterDrain(st, failAt) ==
    LET st1 == IF st.connected_token # NoToken
               THEN refresh_and_handshake(
                        [st EXCEPT !.active_session_token = st.connected_token,
                                   !.validation_ready = FALSE],
                        st.connected_token)
               ELSE IF st.refresh_instances /\ st.active_session_token # NoToken
               THEN refresh_and_handshake(st, st.active_session_token)
               ELSE st
        st2 == watchdog(st1)
    IN  IF st2.last_set_tone.kind = "SetTone"
        THEN apply_set_tone(st2, st2.last_set_tone, failAt)
        ELSE st2

\* MainLoop::tick, from the state the tick starts in.
TickResult(failAt) ==
    AfterDrain(
        DrainLoop(inbound,
            [connected_token |-> NoToken, refresh_instances |-> FALSE,
             last_set_tone |-> NoCommand,
             active_session_token |-> active_session_token,
             validation_ready |-> validation_ready, lookup |-> lookup,
             last_project_change_count |-> last_project_change_count,
             last_track_count |-> last_track_count,
             last_total_fx_count |-> last_total_fx_count,
             elapsed |-> elapsed, fxparams |-> fxparams, outbound |-> outbound,
             acked |-> acked, readySessions |-> readySessions,
             connected |-> <<>>, tones |-> <<>>, sends |-> <<>>, writes |-> <<>>,
             scans |-> <<>>, probes |-> 0, wd |-> "idle"]),
        failAt)

Tick ==
    \E failAt \in 0..MaxFailPos :
        LET st == TickResult(failAt)
        IN  /\ inbound' = <<>>
            /\ outbound' = st.outbound
            /\ active_session_token' = st.active_session_token
            /\ validation_ready' = st.validation_ready
            /\ lookup' = st.lookup
            /\ last_project_change_count' = st.last_project_change_count
            /\ last_track_count' = st.last_track_count
            /\ last_total_fx_count' = st.last_total_fx_count
            /\ elapsed' = st.elapsed
            /\ fxparams' = st.fxparams
            /\ acked' = st.acked
            /\ readySessions' = st.readySessions
            /\ last' = [op |-> "tick", connected |-> st.connected,
                        tones |-> st.tones, sends |-> st.sends,
                        writes |-> st.writes, scans |-> st.scans,
                        probes |-> st.probes, wd |-> st.wd]
            /\ UNCHANGED <<netVars, chain, proj_state, reportEnabled, uiVars, sideVars,
                           clientVars, nextCmd>>


\* ------------------------------------------------------ the network thread

\* What the client of the active connection observes when a server message
\* reaches it.
Receive(m) ==
    /\ firstMsg' = IF firstMsg # "none" THEN firstMsg
                   ELSE IF m.type = "handshake" /\ m.tok = active
                        THEN "handshake"
                        ELSE "other"
    /\ hsSeen' = (hsSeen \/ (m.type = "handshake" /\ m.tok = active))

\* Variant of the accept loop that closes the previous client without posting
\* ClientDisconnected.
Accept_NoDisconnectPosted ==
    /\ netpc = "accept"
    /\ nextTok < MaxSessions
    /\ LET session_token == nextTok + 1
           q == inbound
           busy == Len(q) >= InboundCap
       IN  /\ nextTok' = session_token
           /\ inbound' = try_send(q, InboundCap, ClientConnected(session_token))
           /\ active' = IF busy THEN NoToken ELSE session_token
           /\ last' = [op |-> "accept", tok |-> session_token, prev |-> active,
                       direct |-> IF busy THEN "busy" ELSE "none"]
    /\ hsSeen' = FALSE
    /\ firstMsg' = "none"
    /\ UNCHANGED <<netpc, outbound, mainVars, elapsed, dawVars, reportEnabled, uiVars, sideVars,
                   nextCmd, histVars>>

\* Variant of the accept loop that registers the new client even though its
\* ClientConnected could not be posted.
Accept_RegistersWhenBusy ==
    /\ netpc = "accept"
    /\ nextTok < MaxSessions
    /\ LET session_token == nextTok + 1
           q == IF active # NoToken
                THEN try_send(inbound, InboundCap, ClientDisconnected)
                ELSE inbound
           busy == Len(q) >= InboundCap
       IN  /\ nextTok' = session_token
           /\ inbound' = try_send(q, InboundCap, ClientConnected(session_token))
           /\ active' = session_token
           /\ last' = [op |-> "accept", tok |-> session_token, prev |-> active,
                       direct |-> IF busy THEN "busy" ELSE "none"]
    /\ hsSeen' = FALSE
    /\ firstMsg' = "none"
    /\ UNCHANGED <<netpc, outbound, mainVars, elapsed, dawVars, reportEnabled, uiVars, sideVars,
                   nextCmd, histVars>>

\* run_server, the accept loop: a connection arrives. The token is fresh; the
\* previous client is closed and ClientDisconnected posted; ClientConnected is
\* posted, and when that fails the new client is told Busy and dropped.
Accept ==
    /\ netpc = "accept"
    /\ nextTok < MaxSessions
    /\ LET session_token == nextTok + 1
           q == IF active # NoToken
                THEN try_send(inbound, InboundCap, ClientDisconnected)
                ELSE inbound
           busy == Len(q) >= InboundCap
       IN  /\ nextTok' = session_token
           /\ inbound' = try_send(q, InboundCap, ClientConnected(session_token))
           /\ active' = IF busy THEN NoToken ELSE session_token
           /\ last' = [op |-> "accept", tok |-> session_token, prev |-> active,
                       direct |-> IF busy THEN "busy" ELSE "none"]
    /\ hsSeen' = FALSE
    /\ firstMsg' = "none"
    /\ UNCHANGED <<netpc, outbound, mainVars, elapsed, dawVars, reportEnabled, uiVars, sideVars,
                   nextCmd, histVars>>

\* run_server, the outbound drain: one try_recv that yields a message, and its
\* write to the active client, which succeeds or fails.
DrainOne ==
    /\ netpc \in {"accept", "drain"}
    /\ active # NoToken
    /\ outbound # <<>>
    /\ outbound' = Tail(outbound)
    /\ \E ok \in BOOLEAN :
        /\ last' = [op |-> "drain", msg |-> Head(outbound), to |-> active,
                    ok |-> ok]
        /\ IF ok
           THEN /\ Receive(Head(outbound))
                /\ netpc' = "drain"
                /\ UNCHANGED <<active, inbound>>
           ELSE /\ active' = NoToken
                /\ inbound' = try_send(inbound, InboundCap, ClientDisconnected)
                /\ netpc' = "accept"
                /\ hsSeen' = FALSE
                /\ firstMsg' = "none"
    /\ UNCHANGED <<nextTok, mainVars, elapsed, dawVars, reportEnabled, uiVars, sideVars, nextCmd,
                   histVars>>

\* run_server, the outbound drain: try_recv yields Empty, the loop goes on to read.
DrainEmpty ==
    /\ netpc \in {"accept", "drain"}
    /\ active # NoToken
    /\ outbound = <<>>
    /\ netpc' = "read"
    /\ last' = [op |-> "other"]
    /\ UNCHANGED <<active, nextTok, chanVars, mainVars, elapsed, dawVars,
                   reportEnabled, uiVars, sideVars, clientVars, nextCmd, histVars>>

\* The frames the client of the active connection can send now. It learns its
\* token from the Handshake, so frames with the right token come after it.
Frames ==
    { [kind |-> "Garbage"], [kind |-> "Close"],
      RefreshInstances(WrongToken), SetTone(WrongToken, 0, ToneMenu[1]) }
    \cup (IF hsSeen /\ nextCmd < MaxCmds
          THEN {HandshakeAck(active), RefreshInstances(active)}
               \cup {SetTone(active, nextCmd + 1, ToneMenu[i]) :
                        i \in 1..Len(ToneMenu)}
          ELSE {})

\* handle_inbound for a text frame (and the Close frame, for which it returns
\* Err): what is written directly to the client, and whether the command is queued.
Direct(frame) ==
    IF frame.kind = "Garbage" THEN "invalid_command"
    ELSE IF frame.tok # active THEN "unauthorized"
    ELSE IF Len(inbound) < InboundCap THEN "none"
    ELSE IF frame.kind = "RefreshInstances" THEN "none"
    ELSE "busy"

\* Variant of handle_inbound that queues a command although the channel is full.
Queued_IgnoreCapacity(frame) ==
    /\ frame.kind \notin {"Garbage", "Close"}
    /\ frame.tok = active

\* Variant of handle_inbound that queues a command whatever its token.
Queued_NoTokenCheck(frame) ==
    /\ frame.kind \notin {"Garbage", "Close"}
    /\ Len(inbound) < InboundCap

Queued(frame) ==
    /\ frame.kind \notin {"Garbage", "Close"}
    /\ frame.tok = active
    /\ Len(inbound) < InboundCap

\* run_server, the read of one frame from the active client.
ReadFrame ==
    /\ netpc = "read"
    /\ active # NoToken
    /\ netpc' = "accept"
    /\ \E frame \in Frames :
        IF frame.kind = "Close"
        THEN \* Close frame, ConnectionClosed or another read error
             /\ active' = NoToken
             /\ inbound' = try_send(inbound, InboundCap, ClientDisconnected)
             /\ hsSeen' = FALSE
             /\ firstMsg' = "none"
             /\ last' = [op |-> "read", frame |-> frame, direct |-> "none",
                         queued |-> FALSE]
             /\ UNCHANGED nextCmd
        ELSE /\ last' = [op |-> "read", frame |-> frame,
                         direct |-> Direct(frame), queued |-> Queued(frame)]
             /\ inbound' = IF Queued(frame) THEN Append(inbound, Command(frame))
                           ELSE inbound
             /\ IF Direct(frame) # "none"
                THEN Receive(Error(Direct(frame), 0))
                ELSE UNCHANGED clientVars
             /\ nextCmd' = IF frame.kind # "Garbage" /\ frame.tok = active
                           THEN nextCmd + 1 ELSE nextCmd
             /\ UNCHANGED active
    /\ UNCHANGED <<nextTok, outbound, mainVars, elapsed, dawVars, reportEnabled, uiVars, sideVars,
                   histVars>>

\* run_server, the read times out (or yields a binary, ping or pong frame, for
\* which handle_inbound queues nothing).
ReadTimeout ==
    /\ netpc = "read"
    /\ netpc' = "accept"
    /\ last' = [op |-> "other"]
    /\ UNCHANGED <<active, nextTok, chanVars, mainVars, elapsed, dawVars,
                   reportEnabled, uiVars, sideVars, clientVars, nextCmd, histVars>>

\* ------------------------------------------------------- the DAW, the clock

\* The user inserts a target-plugin instance at the head or the end of the chain
\* (at most `limit` project changes in a behaviour).
InsertFx(limit) ==
    /\ proj_state < limit
    /\ \E g \in Guids \ SeqToSet(chain) :
        \E atHead \in BOOLEAN :
            chain' = IF atHead THEN <<g>> \o chain ELSE Append(chain, g)
    /\ proj_state' = proj_state + 1
    /\ last' = [op |-> "other"]
    /\ UNCHANGED <<netVars, chanVars, mainVars, elapsed, fxparams, reportEnabled, uiVars, sideVars,
                   clientVars, nextCmd, histVars>>

\* The user removes the FX of one slot; the slots after it shift down.
RemoveFx(limit) ==
    /\ proj_state < limit
    /\ \E s \in 1..Len(chain) :
        /\ chain' = [i \in 1..(Len(chain) - 1) |->
                        IF i < s THEN chain[i] ELSE chain[i + 1]]
        /\ fxparams' = [fxparams EXCEPT ![chain[s]] = <<>>]
    /\ proj_state' = proj_state + 1
    /\ last' = [op |-> "other"]
    /\ UNCHANGED <<netVars, chanVars, mainVars, elapsed, reportEnabled, uiVars, sideVars,
                   clientVars, nextCmd, histVars>>

\* A project state change that alters neither the track nor the FX count.
Touch(limit) ==
    /\ proj_state < limit
    /\ proj_state' = proj_state + 1
    /\ last' = [op |-> "other"]
    /\ UNCHANGED <<netVars, chanVars, mainVars, elapsed, chain, fxparams,
                   reportEnabled, uiVars, sideVars, clientVars, nextCmd, histVars>>

\* `step` milliseconds pass between two steps.
Advance(step) ==
    /\ elapsed < PROJECT_CHANGED_DEBOUNCE
    /\ elapsed' = Min(elapsed + step, PROJECT_CHANGED_DEBOUNCE)
    /\ last' = [op |-> "other"]
    /\ UNCHANGED <<netVars, chanVars, mainVars, dawVars, reportEnabled, uiVars, sideVars,
                   clientVars, nextCmd, histVars>>

UserInsertFx == InsertFx(MaxChanges)
UserRemoveFx == RemoveFx(MaxChanges)
UserTouch == Touch(MaxChanges)
TimePasses == Advance(StepMs)

Next ==
    \/ Accept
    \/ DrainOne
    \/ DrainEmpty
    \/ ReadFrame
    \/ ReadTimeout
    \/ Tick
    \/ UserInsertFx
    \/ UserRemoveFx
    \/ UserTouch
    \/ TimePasses

Spec == Init /\ [][Next]_vars

\* ------------------------------------------------------------ the watchdog

\* A burst of project changes with a finer clock, and the main loop's ticks; no
\* client connects.
BurstInsertFx == InsertFx(BurstChanges)
BurstRemoveFx == RemoveFx(BurstChanges)
BurstTouch == Touch(BurstChanges)
ShortTimePasses == Advance(BurstStepMs)

NextWatchdog ==
    \/ BurstInsertFx
    \/ BurstRemoveFx
    \/ BurstTouch
    \/ ShortTimePasses
    \/ Tick

SpecWatchdog == Init /\ [][NextWatchdog]_vars

\* ---------------------------------------------------------- backpressure

\* Commands without a command_id that a client can send in a burst.
QueuedBurst == {Command(HandshakeAck(1)), Command(RefreshInstances(1))}

\* The first session after its Handshake (one instance in the project, no project
\* change yet), its client having sent a burst of commands since the last tick:
\* the inbound channel is full or one short of full.
BackpressureInit ==
    /\ active = 1
    /\ netpc = "read"
    /\ nextTok = 1
    /\ inbound \in [1..(InboundCap - 1) -> QueuedBurst]
                     \cup [1..InboundCap -> QueuedBurst]
    /\ outbound = <<>>
    /\ active_session_token = 1
    /\ reportEnabled \in BOOLEAN
    /\ lifecycle = Running
    /\ actor = ActorStart
    /\ index_remap = <<>>
    /\ param_cache = [g \in Guids |-> <<>>]
    /\ validation_ready = validate_parameter_map(reportEnabled)
    /\ chain = <<"F1">>
    /\ lookup = scan_project_instances(chain).lookup
    /\ last_project_change_count = 0
    /\ last_track_count = -1
    /\ last_total_fx_count = -1
    /\ elapsed = PROJECT_CHANGED_DEBOUNCE
    /\ fxparams = [g \in Guids |-> <<>>]
    /\ proj_state = 0
    /\ hsSeen = TRUE
    /\ firstMsg = "handshake"
    /\ nextCmd = 0
    /\ acked = {}
    /\ readySessions = IF reportEnabled THEN {1} ELSE {}
    /\ last = [op |-> "init"]

\* The network thread and the main loop; the project does not change.
NextBackpressure ==
    \/ Accept
    \/ DrainOne
    \/ DrainEmpty
    \/ ReadFrame
    \/ ReadTimeout
    \/ Tick

SpecBackpressure == BackpressureInit /\ [][NextBackpressure]_vars

\* ------------------------------------------- sanitize and clean on their own

\* The entries a parameter list is made of: in-range and out-of-range indices,
\* values below, inside and above [0,1] and a non-finite one, bypass and
\* non-bypass parameters of modules, and an EQ-section parameter.
ParamEntries ==
    { P(2, -300), P(2, 900), P(2, 1400), P(2, NonFinite), P(30, 420),
      P(5000, 500), P(-1, 500), P(3, One), P(6, 500), P(14, 800), P(54, 700) }

ParamLists ==
    UNION { [1..n -> ParamEntries] : n \in 0..MaxParams }

MergeModes == {"merge", "replace_active"}

\* The sidecar is idle (nobody connected, empty project); a parameter list and a
\* merge mode are given.
PureInit ==
    /\ active = NoToken
    /\ netpc = "accept"
    /\ nextTok = 0
    /\ inbound = <<>>
    /\ outbound = <<>>
    /\ active_session_token = NoToken
    /\ validation_ready = FALSE
    /\ lookup = EmptyLookup
    /\ last_project_change_count = 0
    /\ last_track_count = -1
    /\ last_total_fx_count = -1
    /\ elapsed = PROJECT_CHANGED_DEBOUNCE
    /\ chain = <<>>
    /\ fxparams = [g \in Guids |-> <<>>]
    /\ proj_state = 0
    /\ reportEnabled = FALSE
    /\ lifecycle = Running
    /\ actor = ActorStart
    /\ index_remap = <<>>
    /\ param_cache = [g \in Guids |-> <<>>]
    /\ hsSeen = FALSE
    /\ firstMsg = "none"
    /\ nextCmd = 0
    /\ acked = {}
    /\ readySessions = {}
    /\ \E params \in ParamLists, mode \in MergeModes :
           last = [op |-> "input", params |-> params, mode |-> mode]

PureUnchanged ==
    UNCHANGED <<netVars, chanVars, mainVars, elapsed, dawVars, reportEnabled, uiVars, sideVars,
                clientVars, nextCmd, histVars>>

\* sanitize_params is applied to the list: the main loop's and the client's.
Sanitize ==
    /\ last.op = "input"
    /\ last' = [op |-> "sanitize", params |-> last.params, mode |-> last.mode,
                server |-> sanitize_params(last.params),
                client |-> client_sanitize_params(last.params)]
    /\ PureUnchanged

\* sanitize_params is applied to its own successful output.
Resanitize ==
    /\ last.op = "sanitize"
    /\ last.server.ok
    /\ last.client.ok
    /\ last' = [op |-> "resanitize", params |-> last.params,
                server1 |-> last.server, client1 |-> last.client,
                server2 |-> sanitize_params(last.server.out),
                client2 |-> client_sanitize_params(last.client.out)]
    /\ PureUnchanged

\* The clean step is applied to the list as given.
Clean ==
    /\ last.op = "input"
    /\ last' = [op |-> "clean", params |-> last.params, mode |-> last.mode,
                server |-> server_clean(last.mode, last.params),
                client |-> client_apply_replace_active_cleaner(last.mode,
                                                               last.params)]
    /\ PureUnchanged

\* The clean step is applied to the output of sanitize, as the pipeline does.
CleanSanitized ==
    /\ last.op = "sanitize"
    /\ last.server.ok
    /\ last' = [op |-> "clean", params |-> last.server.out, mode |-> last.mode,
                server |-> server_clean(last.mode, last.server.out),
                client |-> client_apply_replace_active_cleaner(last.mode,
                                                               last.server.out)]
    /\ PureUnchanged

NextPure ==
    \/ Sanitize
    \/ Resanitize
    \/ Clean
    \/ CleanSanitized

SpecPure == PureInit /\ [][NextPure]_vars

\* ------------------------------------------------- reading the last step

\* The last step was a tick of the main loop.
TickDone == last.op = "tick"

\* Positions of the messages of one type among those the tick handed to send.
OfType(sends, type) == {i \in DOMAIN sends : sends[i].type = type}

\* Positions of the Errors with one code.
Errors(sends, code) ==
    {i \in DOMAIN sends : sends[i].type = "error" /\ sends[i].code = code}

\* Positions of the responses to a SetTone: Ack or Error.
Responses(sends) == OfType(sends, "ack") \cup OfType(sends, "error")

\* The SetTone the tick kept: the last one it drained.
LastTone == last.tones[Len(last.tones)]

\* The write list the pipeline yields for a SetTone with valid parameters.
Pipeline(tone) ==
    IF tone.mode = "replace_active"
    THEN apply_replace_active_cleaner(sanitize_params(tone.params).out)
    ELSE sanitize_params(tone.params).out

\* -------------------------------------------------------------------- C1

\* C1: at every instant at most one session token is valid, and a SetTone that
\* carried any other token is never applied to the DAW and never acknowledged:
\* whenever a tick writes parameters or sends an Ack, the SetTone it applied
\* carries the token of the session the main loop holds.
C1_AppliedToneCarriesValidToken ==
    (TickDone /\ (last.writes # <<>> \/ OfType(last.sends, "ack") # {}))
        => (last.tones # <<>> /\ LastTone.tok = active_session_token)

\* -------------------------------------------------------------------- C2

\* C2: a frame that does not parse as a command, or whose token differs from the
\* session's token, gets an Error reply (InvalidCommand, Unauthorized) written
\* by the network thread, is not put on the inbound channel, leaves the main
\* loop's and the DAW's state unchanged, and leaves the connection open.
C2_RejectedFrameChangesNothing ==
    [][ (/\ last'.op = "read"
         /\ last'.frame.kind # "Close"
         /\ (last'.frame.kind = "Garbage" \/ last'.frame.tok # active))
        => /\ last'.direct = IF last'.frame.kind = "Garbage"
                             THEN "invalid_command" ELSE "unauthorized"
           /\ ~last'.queued
           /\ inbound' = inbound
           /\ mainVars' = mainVars
           /\ dawVars' = dawVars
           /\ active # NoToken
           /\ active' = active ]_vars

\* C2 witness: a session that has its Handshake and is ready sent a command with
\* a wrong token, was told Unauthorized, and is still the active connection.
C2_Witness ==
    /\ last.op = "read"
    /\ last.direct = "unauthorized"
    /\ hsSeen
    /\ validation_ready
    /\ active # NoToken
    /\ active = active_session_token

\* -------------------------------------------------------------------- C3

\* C3: for every session, the Handshake carrying its token is the first server
\* message the client receives; no ProjectChanged, Ack or Error (from the main
\* loop or written directly by the network thread) reaches it before.
C3_HandshakeIsFirstMessage == firstMsg \in {"none", "handshake"}

\* -------------------------------------------------------------------- C4

\* C4 as stated: for every ClientConnected the main loop processes, it sends
\* exactly one Handshake carrying that connection's token.
C4_OneHandshakePerConnected ==
    TickDone =>
        \A k \in DOMAIN last.connected :
            Cardinality({i \in OfType(last.sends, "handshake") :
                            last.sends[i].tok = last.connected[k]}) = 1

\* C4 amended: a tick that drains one or more ClientConnected runs one instance
\* scan, probes the first discovered instance (without a second scan), and hands
\* exactly one Handshake to send: the one carrying the token of the last
\* ClientConnected drained, listing the scanned instances. No Handshake carries a
\* token other than the one the main loop holds when the tick ends.
C4_OneHandshakeForLastConnected ==
    TickDone =>
        /\ \A i \in OfType(last.sends, "handshake") :
               last.sends[i].tok = active_session_token
        /\ last.connected # <<>> =>
               /\ Cardinality(OfType(last.sends, "handshake")) = 1
               /\ \A i \in OfType(last.sends, "handshake") :
                      /\ last.sends[i].tok = last.connected[Len(last.connected)]
                      /\ last.sends[i].instances = chain
               /\ Cardinality({i \in DOMAIN last.scans :
                                  last.scans[i] = "refresh"}) = 1
               /\ \A i \in DOMAIN last.scans : last.scans[i] # "probe"
               /\ last.probes = IF chain = <<>> THEN 0 ELSE 1

\* C4 witness: a tick drained two ClientConnected and sent a Handshake.
C4_Witness ==
    /\ TickDone
    /\ Len(last.connected) = 2
    /\ OfType(last.sends, "handshake") # {}

\* -------------------------------------------------------------------- C5

\* C5: of the SetTone commands drained in one tick only the last one is applied;
\* the earlier ones cause no parameter write and get neither Ack nor Error.
C5_OnlyLastSetToneApplied ==
    TickDone =>
        /\ Cardinality(Responses(last.sends)) <= 1
        /\ last.tones = <<>> =>
               (last.writes = <<>> /\ Responses(last.sends) = {})
        /\ last.tones # <<>> =>
               /\ \A i \in OfType(last.sends, "ack") :
                      last.sends[i].id = LastTone.id
               /\ last.writes # <<>> =>
                      /\ Len(last.writes) <= Len(Pipeline(LastTone))
                      /\ \A w \in DOMAIN last.writes :
                             /\ last.writes[w].index = Pipeline(LastTone)[w].index
                             /\ last.writes[w].value = Pipeline(LastTone)[w].value

\* C5 witness: a tick drained two SetTone with different payloads and
\* acknowledged one.
C5_Witness ==
    /\ TickDone
    /\ Len(last.tones) = 2
    /\ last.tones[1].params # last.tones[2].params
    /\ OfType(last.sends, "ack") # {}
    /\ last.writes # <<>>

\* -------------------------------------------------------------------- C6

\* C6 as stated: a SetTone is not applied until the session's HandshakeAck has
\* been handled: a tick that writes parameters applies a SetTone of a session
\* whose HandshakeAck the main loop has drained.
C6_AppliedOnlyAfterHandshakeAck ==
    (TickDone /\ last.writes # <<>>) => LastTone.tok \in acked

\* C6 amended: the main loop holds a SetTone only within the tick that drains it
\* (a newer one drained in that tick replacing it) and never waits for a
\* HandshakeAck: the tick hands exactly one response for the held SetTone to
\* send, and that response is Error NotReady exactly when validation_ready is
\* false, whether or not a HandshakeAck was handled.
C6_SetToneAnsweredInItsTick ==
    (TickDone /\ last.tones # <<>>) =>
        /\ Cardinality(Responses(last.sends)) = 1
        /\ (Errors(last.sends, "not_ready") # {}) <=> ~validation_ready

\* C6 witness: a SetTone of a session whose HandshakeAck was never handled was
\* written to the DAW and acknowledged.
C6_Witness ==
    /\ TickDone
    /\ last.tones # <<>>
    /\ LastTone.tok \notin acked
    /\ last.writes # <<>>
    /\ OfType(last.sends, "ack") # {}

\* -------------------------------------------------------------------- C7

\* C7: after a Handshake that lists an instance, a SetTone with the Handshake's
\* token, a listed instance's GUID and in-range parameters (all writes
\* succeeding) is answered with an Ack whose command_id equals the request's and
\* whose applied_params has exactly one entry per requested index.
C7_AckEchoesAppliedParams ==
    (/\ TickDone
     /\ last.tones # <<>>
     /\ LastTone.tok = active_session_token
     /\ LastTone.tok \in readySessions
     /\ LastTone.guid \in SeqToSet(chain)
     /\ sanitize_params(LastTone.params).ok
     /\ \A w \in DOMAIN last.writes : last.writes[w].ok)
    => \E i \in OfType(last.sends, "ack") :
           /\ last.sends[i].id = LastTone.id
           /\ Len(last.sends[i].applied_params)
                  = Cardinality({LastTone.params[k].index :
                                    k \in DOMAIN LastTone.params})

\* -------------------------------------------------------------------- C8

\* C8: an Ack is sent only after every parameter of the post-pipeline list was
\* written successfully, in list order; when the Ack is enqueued, reading each
\* written index from the DAW returns the sanitized value.
C8_AckOnlyAfterAllWrites ==
    (TickDone /\ OfType(last.sends, "ack") # {}) =>
        /\ last.tones # <<>>
        /\ Len(last.writes) = Len(Pipeline(LastTone))
        /\ \A w \in DOMAIN last.writes :
               /\ last.writes[w].ok
               /\ last.writes[w].index = Pipeline(LastTone)[w].index
               /\ last.writes[w].value = Pipeline(LastTone)[w].value
               /\ last.writes[w].value \in 0..One
               /\ fxparams[last.writes[w].guid][last.writes[w].index]
                      = last.writes[w].value
        /\ last.sends[Len(last.sends)].type = "ack"

\* C8 witness: an Ack after a batch of several writes, one of them clamped.
C8_Witness ==
    /\ TickDone
    /\ OfType(last.sends, "ack") # {}
    /\ Len(last.writes) >= 2
    /\ \E k \in DOMAIN LastTone.params : LastTone.params[k].value > One

\* -------------------------------------------------------------------- C9

\* C9: a SetTone that fails a pre-write check (session not ready, target GUID
\* unresolved after the rescan, invalid index or non-finite value) causes no
\* parameter write, leaves the DAW's parameters unchanged, and is answered with
\* exactly the matching Error: NotReady, TargetNotFound or InvalidValue.
C9_PreWriteFailureWritesNothing ==
    [][ (/\ last'.op = "tick"
         /\ last'.tones # <<>>
         /\ LET tone == last'.tones[Len(last'.tones)]
            IN  \/ ~validation_ready'
                \/ tone.guid \notin SeqToSet(chain)
                \/ ~sanitize_params(tone.params).ok)
        => LET tone == last'.tones[Len(last'.tones)]
               code == IF ~validation_ready' THEN "not_ready"
                       ELSE IF tone.guid \notin SeqToSet(chain)
                       THEN "target_not_found"
                       ELSE "invalid_value"
           IN  /\ last'.writes = <<>>
               /\ fxparams' = fxparams
               /\ OfType(last'.sends, "ack") = {}
               /\ Cardinality(OfType(last'.sends, "error")) = 1
               /\ Errors(last'.sends, code) # {} ]_vars

\* C9 witness: parameters written by an earlier SetTone are in the DAW, and a
\* tick has just answered a SetTone with Error InvalidValue.
C9_Witness ==
    /\ TickDone
    /\ Errors(last.sends, "invalid_value") # {}
    /\ \E g \in Guids : fxparams[g] # <<>>

\* ------------------------------------------------------------------- C10

\* C10: a session is Ready once it got a Handshake produced after a successful
\* probe; a Ready session's SetTone is never rejected with NotReady.
C10_ReadySessionNeverNotReady ==
    (/\ TickDone
     /\ last.tones # <<>>
     /\ LastTone.tok = active_session_token
     /\ LastTone.tok \in readySessions)
    => Errors(last.sends, "not_ready") = {}

\* ------------------------------------------------------------------- C11

\* C11: when a DAW write fails in the middle of a SetTone batch the main loop
\* stops at the first failing entry: it sends one Error InternalError naming that
\* entry's index, attempts no write for a later entry, sends no Ack, and the
\* earlier successful writes stay in the DAW (every other parameter is as it
\* was before the tick).
C11_StopsAtFirstFailedWrite ==
    [][ (/\ last'.op = "tick"
         /\ \E w \in DOMAIN last'.writes : ~last'.writes[w].ok)
        => LET writes == last'.writes
               n == Len(writes)
               tone == last'.tones[Len(last'.tones)]
               g == writes[n].guid
               written == {writes[i].index : i \in 1..(n - 1)}
           IN  /\ \A i \in 1..n : writes[i].ok <=> i < n
               /\ n <= Len(Pipeline(tone))
               /\ \A i \in 1..n :
                      /\ writes[i].index = Pipeline(tone)[i].index
                      /\ writes[i].value = Pipeline(tone)[i].value
               /\ Cardinality(Responses(last'.sends)) = 1
               /\ OfType(last'.sends, "ack") = {}
               /\ \A i \in Errors(last'.sends, "internal_error") :
                      last'.sends[i].at = writes[n].index
               /\ Errors(last'.sends, "internal_error") # {}
               /\ DOMAIN fxparams'[g] = DOMAIN fxparams[g] \cup written
               /\ \A i \in 1..(n - 1) :
                      fxparams'[g][writes[i].index] = writes[i].value
               /\ \A k \in DOMAIN fxparams[g] \ written :
                      fxparams'[g][k] = fxparams[g][k]
               /\ \A h \in Guids \ {g} : fxparams'[h] = fxparams[h] ]_vars

\* C11 witness: the second write of a batch failed; the first one is in the DAW
\* and the tick sent Error InternalError.
C11_Witness ==
    /\ TickDone
    /\ Len(last.writes) = 2
    /\ last.writes[1].ok
    /\ ~last.writes[2].ok
    /\ fxparams[last.writes[1].guid][last.writes[1].index] = last.writes[1].value
    /\ Errors(last.sends, "internal_error") # {}

\* ------------------------------------------------------------------- C12

C13_BusyClientIsDropped ==
    [][ (last'.op = "accept" /\ Len(inbound) = InboundCap)
        => /\ last'.direct = "busy"
           /\ active' = NoToken
           /\ inbound' = inbound
           /\ \A i \in DOMAIN inbound' :
                  inbound'[i] # ClientConnected(last'.tok) ]_vars

\* C13 witness: a client arrived when the inbound channel was full and was turned
\* away with Busy.
C13_Witness ==
    /\ last.op = "accept"
    /\ last.direct = "busy"
    /\ Len(inbound) = InboundCap
    /\ \A i \in DOMAIN inbound : inbound[i].type # "ClientConnected"
    /\ active = NoToken

\* ------------------------------------------------------------------- C14

\* C14: when an authorized command cannot be queued because the inbound channel
\* is full, a SetTone is answered with Error Busy and never reaches the main loop
\* (so it is not applied), a RefreshInstances is dropped with no message to the
\* client, and in both cases the connection stays open.
C14_FullInboundBusyOrSilentDrop ==
    [][ (/\ last'.op = "read"
         /\ last'.frame.kind \in {"SetTone", "RefreshInstances"}
         /\ last'.frame.tok = active
         /\ Len(inbound) = InboundCap)
        => /\ ~last'.queued
           /\ inbound' = inbound
           /\ last'.direct = IF last'.frame.kind = "SetTone"
                             THEN "busy" ELSE "none"
           /\ last'.frame.kind = "RefreshInstances" => clientVars' = clientVars
           /\ outbound' = outbound
           /\ mainVars' = mainVars
           /\ dawVars' = dawVars
           /\ active # NoToken
           /\ active' = active ]_vars

\* C14 witness: the active client's SetTone found the inbound channel full and
\* was answered Busy; the client is still the active one.
C14_Witness ==
    /\ last.op = "read"
    /\ last.frame.kind = "SetTone"
    /\ last.frame.tok = active
    /\ last.direct = "busy"
    /\ Len(inbound) = InboundCap
    /\ active # NoToken

\* ------------------------------------------------------------------- C15

\* C15: in a tick the watchdog emits ProjectChanged (once, and clears the
\* FxLookup) exactly when the DAW's state-change counter differs from the last
\* observed one, the track count or the total FX count differs from the last
\* observed counts, and at least 500 ms have passed since the last broadcast.
\* An emission restarts the 500 ms, so two emissions are at least 500 ms apart
\* and a burst of count-changing increments yields one notification; a later
\* count-changing increment after 500 ms yields the next one.
C15_ProjectChangedExactlyWhenDue ==
    [][ last'.op = "tick"
        => LET changed == proj_state # last_project_change_count
               affected == \/ TrackCount # last_track_count
                           \/ Len(chain) # last_total_fx_count
               due == elapsed >= PROJECT_CHANGED_DEBOUNCE
               emitted == OfType(last'.sends, "project_changed")
           IN  /\ Cardinality(emitted)
                      = IF changed /\ affected /\ due THEN 1 ELSE 0
               /\ emitted # {} =>
                      /\ elapsed' = 0
                      /\ last'.tones = <<>> => lookup' = EmptyLookup
               /\ emitted = {} => elapsed' = elapsed
               /\ last_project_change_count' = proj_state ]_vars

\* C15 witness: one notification is in the outbound channel and a tick has just
\* seen a further count-changing increment less than 500 ms after it, for which
\* it emitted nothing.
C15_Witness ==
    /\ TickDone
    /\ last.wd = "debounced"
    /\ last.sends = <<>>
    /\ outbound = <<ProjectChanged>>
    /\ proj_state >= 2
    /\ elapsed < PROJECT_CHANGED_DEBOUNCE

\* ----------------------------------------------- reading sanitize and clean

\* The indices that occur in a parameter list.
Indices(params) == {params[i].index : i \in 1..Len(params)}

\* Position of the last occurrence of an index in a list.
LastOcc(params, k) ==
    CHOOSE i \in 1..Len(params) :
        /\ params[i].index = k
        /\ \A j \in 1..Len(params) : params[j].index = k => j <= i

\* The list has an entry sanitize is to reject.
HasInvalid(params) ==
    \E i \in 1..Len(params) :
        \/ params[i].index < 0
        \/ params[i].index > MAX_PARAM_INDEX
        \/ ~IsFinite(params[i].value)

\* A successful output is well-formed: finite values in [0,1], indices in
\* [0, MAX_PARAM_INDEX], no index twice.
WellFormed(out) ==
    /\ \A i \in 1..Len(out) :
           /\ IsFinite(out[i].value)
           /\ out[i].value \in 0..One
           /\ out[i].index \in 0..MAX_PARAM_INDEX
    /\ \A i, j \in 1..Len(out) : out[i].index = out[j].index => i = j

\* The entries the clean step appended to its input.
Appended(input, out) == SubSeq(out, Len(input) + 1, Len(out))

\* ------------------------------------------------------------------- C16

\* C16: every successful output of sanitize (the client's and the main loop's)
\* has only finite values in [0,1], only indices in [0, 4096] and no index twice;
\* an input containing an index outside [0, 4096] or a non-finite value is
\* rejected with an error.
C16_SanitizeOutputValidOrRejected ==
    last.op = "sanitize" =>
        \A r \in {last.server, last.client} :
            /\ r.ok => WellFormed(r.out)
            /\ HasInvalid(last.params) => ~r.ok

\* ------------------------------------------------------------------- C17

\* C17: sanitize deduplicates by index with last-write-wins: on success the
\* output has each index of the input once, with the clamped value of its last
\* occurrence, in the relative order of those last occurrences;
\* [(2,-0.3),(2,0.9),(2,1.4)] gives [(2,1.0)] and [(5000,0.5)] is an error.
C17_SanitizeLastWriteWins ==
    last.op = "sanitize" =>
        \A r \in {last.server, last.client} :
            /\ r.ok =>
                /\ Indices(r.out) = Indices(last.params)
                /\ Len(r.out) = Cardinality(Indices(last.params))
                /\ \A i \in 1..Len(r.out) :
                       r.out[i].value =
                           Clamp01(last.params[LastOcc(last.params,
                                                       r.out[i].index)].value)
                /\ \A i, j \in 1..Len(r.out) :
                       i < j => LastOcc(last.params, r.out[i].index)
                                    < LastOcc(last.params, r.out[j].index)
            /\ last.params = <<P(2, -300), P(2, 900), P(2, 1400)>>
                   => (r.ok /\ r.out = <<P(2, One)>>)
            /\ last.params = <<P(5000, 500)>> => ~r.ok

\* C17 witness: a list in which an index occurs before and after another one was
\* sanitized: the output has the other index first.
C17_Witness ==
    /\ last.op = "sanitize"
    /\ last.params = <<P(2, -300), P(30, 420), P(2, 1400)>>
    /\ last.server.ok
    /\ last.client.ok
    /\ last.server.out = <<P(30, 420), P(2, One)>>

\* ------------------------------------------------------------------- C18

C19_CleanOnlyAdds ==
    last.op = "clean" =>
        \A out \in {last.server, last.client} :
            /\ Len(out) >= Len(last.params)
            /\ SubSeq(out, 1, Len(last.params)) = last.params
            /\ \A i \in (Len(last.params) + 1)..Len(out) :
                   /\ out[i].index \notin Indices(last.params)
                   /\ \A j \in (Len(last.params) + 1)..Len(out) :
                          out[i].index = out[j].index => i = j

\* C19 witness: ReplaceActive clean of a list that sets a bypass parameter of an
\* untouched module to 1.0: entries were appended and the explicit value stands.
C19_Witness ==
    /\ last.op = "clean"
    /\ last.mode = "replace_active"
    /\ last.params = <<P(3, One)>>
    /\ Len(last.server) > 1
    /\ Len(last.client) > 1

\* ------------------------------------------------------------------- C20

\* C20: in ReplaceActive mode, for every declared module none of whose
\* non-bypass parameters occurs in the input, each of its bypass indices that is
\* not in the input is appended with value 0.0, and no bypass index of a touched
\* module is appended; in Merge mode the clean returns the list unchanged.
C20_CleanForcesUntouchedModulesOff ==
    last.op = "clean" =>
        \A out \in {last.server, last.client} :
            /\ last.mode = "merge" => out = last.params
            /\ last.mode = "replace_active" =>
                   \A m \in 1..Len(MODULES) :
                       LET touched ==
                               \E k \in Indices(last.params) :
                                   /\ k \in SeqToSet(MODULES[m].params)
                                   /\ k \notin SeqToSet(MODULES[m].bypass)
                           added ==
                               { b \in SeqToSet(MODULES[m].bypass) :
                                   P(b, 0) \in SeqToSet(Appended(last.params, out)) }
                       IN  added = IF touched THEN {}
                                   ELSE SeqToSet(MODULES[m].bypass)
                                            \ Indices(last.params)

\* C20 witness: ReplaceActive clean of a list that touches the overdrive module
\* and sets one of the two bypass parameters of the untouched first module: the
\* other one and the octaver's are forced off, the overdrive's is not.
C20_Witness ==
    /\ last.op = "clean"
    /\ last.mode = "replace_active"
    /\ last.params = <<P(14, 800), P(3, One)>>
    /\ P(4, 0) \in SeqToSet(last.server)
    /\ P(8, 0) \in SeqToSet(last.client)
    /\ P(13, 0) \notin SeqToSet(last.server)
    /\ P(3, 0) \notin SeqToSet(last.server)

\* ------------------------------------------------------------------- C21

\* C21: for a ReplaceActive input that contains a non-bypass parameter of a
\* module but not that module's active toggle, the clean output contains the
\* module's active toggle with value 1.0, and contains the bypass indices of
\* every other (untouched) module that the input does not set with value 0.0.
C21_TouchedModuleToggleAdded ==
    (last.op = "clean" /\ last.mode = "replace_active") =>
        \A out \in {last.server, last.client} :
            \A m \in 1..Len(MODULES) :
                \A b \in SeqToSet(MODULES[m].bypass) \ Indices(last.params) :
                    IF m \in touched_modules(last.params)
                    THEN P(b, One) \in SeqToSet(out)
                    ELSE P(b, 0) \in SeqToSet(out)

\* ------------------------------ pure: the value resolver (brain_core) - values

\* The resolver's f32 values are kept as exact fractions [n, d], d > 0, in lowest
\* terms; f32 rounding is not modelled.
RECURSIVE GCD(_, _)
GCD(a, b) == IF b = 0 THEN a ELSE GCD(b, a % b)

Abs(a) == IF a < 0 THEN -a ELSE a

Q(n, d) ==
    LET s == IF d < 0 THEN -1 ELSE 1
        g == GCD(Abs(n), Abs(d))
    IN  [n |-> (s * n) \div g, d |-> (s * d) \div g]

QLt(a, b) == a.n * b.d < b.n * a.d
QLe(a, b) == a.n * b.d <= b.n * a.d
QAdd(a, b) == Q(a.n * b.d + b.n * a.d, a.d * b.d)
QSub(a, b) == Q(a.n * b.d - b.n * a.d, a.d * b.d)
QMul(a, b) == Q(a.n * b.n, a.d * b.d)
QDiv(a, b) == Q(a.n * b.d, a.d * b.n)

\* f32::clamp(0.0, 1.0)
QClamp01(a) == IF a.n < 0 THEN Q(0, 1) ELSE IF a.n > a.d THEN Q(1, 1) ELSE a

\* a.abs() < 1e-6
AbsLtEpsilon(a) == Abs(a.n) <= (a.d - 1) \div 1000000

\* Option<T>
None == [some |-> FALSE, v |-> Q(0, 1)]
Some(v) == [some |-> TRUE, v |-> v]

\* ----------------------------- pure: the value resolver (brain_core) - strings

CharAt(s, i) == SubSeq(s, i, i)

\* The whitespace of the strings considered here is the space character.
IsSpace(c) == c = " "

IsDigit(c) == \E k \in 1..10 : CharAt("0123456789", k) = c

DigitValue(c) == (CHOOSE k \in 1..10 : CharAt("0123456789", k) = c) - 1

LowerChar(c) ==
    IF \E k \in 1..26 : CharAt("ABCDEFGHIJKLMNOPQRSTUVWXYZ", k) = c
    THEN CharAt("abcdefghijklmnopqrstuvwxyz",
                CHOOSE k \in 1..26 : CharAt("ABCDEFGHIJKLMNOPQRSTUVWXYZ", k) = c)
    ELSE c

RECURSIVE to_ascii_lowercase(_)
to_ascii_lowercase(s) ==
    IF Len(s) = 0 THEN s
    ELSE LowerChar(CharAt(s, 1)) \o to_ascii_lowercase(SubSeq(s, 2, Len(s)))

eq_ignore_ascii_case(a, b) == to_ascii_lowercase(a) = to_ascii_lowercase(b)

RECURSIVE trim_start(_)
trim_start(s) ==
    IF Len(s) > 0 /\ IsSpace(CharAt(s, 1))
    THEN trim_start(SubSeq(s, 2, Len(s)))
    ELSE s

RECURSIVE trim_end(_)
trim_end(s) ==
    IF Len(s) > 0 /\ IsSpace(CharAt(s, Len(s)))
    THEN trim_end(SubSeq(s, 1, Len(s) - 1))
    ELSE s

trim(s) == trim_end(trim_start(s))

starts_with(s, pat) == Len(s) >= Len(pat) /\ SubSeq(s, 1, Len(pat)) = pat

ends_with(s, pat) ==
    Len(s) >= Len(pat) /\ SubSeq(s, Len(s) - Len(pat) + 1, Len(s)) = pat

contains(s, pat) ==
    \E i \in 1..(Len(s) - Len(pat) + 1) : SubSeq(s, i, i + Len(pat) - 1) = pat

\* str::replace(from, to), for a non-empty `from`
RECURSIVE replace(_, _, _)
replace(s, from, to) ==
    IF Len(s) < Len(from) THEN s
    ELSE IF starts_with(s, from)
    THEN to \o replace(SubSeq(s, Len(from) + 1, Len(s)), from, to)
    ELSE CharAt(s, 1) \o replace(SubSeq(s, 2, Len(s)), from, to)

\* str::strip_suffix: Option<&str> as [some, s]
strip_suffix(s, suffix) ==
    IF ends_with(s, suffix)
    THEN [some |-> TRUE, s |-> SubSeq(s, 1, Len(s) - Len(suffix))]
    ELSE [some |-> FALSE, s |-> ""]

\* str::trim_end_matches(c)
RECURSIVE trim_end_matches(_, _)
trim_end_matches(s, c) ==
    IF Len(s) > 0 /\ CharAt(s, Len(s)) = c
    THEN trim_end_matches(SubSeq(s, 1, Len(s) - 1), c)
    ELSE s

\* str::split_whitespace: the tokens from position i on, `cur` being the token
\* under construction.
RECURSIVE SplitLoop(_, _, _, _)
SplitLoop(s, i, cur, out) ==
    IF i > Len(s)
    THEN IF cur = "" THEN out ELSE Append(out, cur)
    ELSE IF IsSpace(CharAt(s, i))
    THEN SplitLoop(s, i + 1, "", IF cur = "" THEN out ELSE Append(out, cur))
    ELSE SplitLoop(s, i + 1, cur \o CharAt(s, i), out)

split_whitespace(s) == SplitLoop(s, 1, "", <<>>)

\* Vec<&str>::join(" ")
RECURSIVE JoinSpace(_)
JoinSpace(toks) ==
    IF Len(toks) = 0 THEN ""
    ELSE IF Len(toks) = 1 THEN toks[1]
    ELSE toks[1] \o " " \o JoinSpace(Tail(toks))

normalize_ws(s) == JoinSpace(split_whitespace(s))

eq_ignore_case(a, b) == eq_ignore_ascii_case(trim(a), trim(b))

\* The character map shared by parse_db_from_formatted, parse_ms_from_formatted,
\* parse_bpm_value and parse_first_float: digits, sign, dot and space are kept,
\* every other character becomes a space.
RECURSIVE KeepNumeric(_)
KeepNumeric(s) ==
    IF Len(s) = 0 THEN s
    ELSE LET c == CharAt(s, 1)
         IN  (IF IsDigit(c) \/ c \in {".", "-", "+", " "} THEN c ELSE " ")
                 \o KeepNumeric(SubSeq(s, 2, Len(s)))

RECURSIVE Pow10(_)
Pow10(k) == IF k = 0 THEN 1 ELSE 10 * Pow10(k - 1)

\* The number written by the digits of s, dots skipped.
RECURSIVE DigitsValue(_, _)
DigitsValue(s, acc) ==
    IF Len(s) = 0 THEN acc
    ELSE IF CharAt(s, 1) = "." THEN DigitsValue(SubSeq(s, 2, Len(s)), acc)
    ELSE DigitsValue(SubSeq(s, 2, Len(s)), 10 * acc + DigitValue(CharAt(s, 1)))

\* str::parse::<f32>() on decimal literals: an optional sign, digits with at
\* most one dot and at least one digit, no whitespace. (Exponents, "inf" and
\* "nan", which f32's parser also accepts, are not among the strings considered.)
parse_f32(s) ==
    LET signed == Len(s) > 0 /\ CharAt(s, 1) \in {"+", "-"}
        body == IF signed THEN SubSeq(s, 2, Len(s)) ELSE s
        dots == {i \in 1..Len(body) : CharAt(body, i) = "."}
        valid == /\ \A i \in 1..Len(body) : IsDigit(CharAt(body, i)) \/ i \in dots
                 /\ Cardinality(dots) <= 1
                 /\ \E i \in 1..Len(body) : IsDigit(CharAt(body, i))
        frac == IF dots = {} THEN 0 ELSE Len(body) - (CHOOSE i \in dots : TRUE)
        sign == IF signed /\ CharAt(s, 1) = "-" THEN -1 ELSE 1
    IN  IF valid THEN Some(Q(sign * DigitsValue(body, 0), Pow10(frac)))
        ELSE None

\* The first token of a token list that parses as f32.
RECURSIVE FirstParsable(_, _)
FirstParsable(toks, i) ==
    IF i > Len(toks) THEN None
    ELSE IF parse_f32(toks[i]).some THEN parse_f32(toks[i])
    ELSE FirstParsable(toks, i + 1)

\* ----------------------------- pure: the value resolver (brain_core) - parsers

\* serde_json::Value of a proposal: a number, a string, or another type.
JsonNumber(q) == [type |-> "number", num |-> q, str |-> ""]
JsonString(s) == [type |-> "string", num |-> Q(0, 1), str |-> s]
JsonBool == [type |-> "bool", num |-> Q(0, 1), str |-> ""]

parse_numeric_value(value) ==
    IF value.type = "number" THEN Some(value.num)
    ELSE IF value.type = "string" THEN parse_f32(trim(value.str))
    ELSE None

parse_bool_like(s) ==
    LET t == to_ascii_lowercase(trim(s))
    IN  IF t \in {"on", "true", "yes", "enabled"} THEN Some(Q(1, 1))
        ELSE IF t \in {"off", "false", "no", "disabled"} THEN Some(Q(0, 1))
        ELSE None

parse_percent(s) ==
    LET t == trim(trim_end_matches(trim(s), "%"))
        v == parse_f32(t)
    IN  IF v.some THEN Some(QClamp01(QDiv(v.v, Q(100, 1)))) ELSE None

parse_db(s) ==
    LET t == replace(to_ascii_lowercase(trim(s)), ",", ".")
    IN  parse_f32(trim(replace(t, "db", "")))

parse_db_from_formatted(s) ==
    LET t == replace(to_ascii_lowercase(trim(s)), ",", ".")
    IN  IF ~contains(t, "db") THEN None
        ELSE FirstParsable(split_whitespace(KeepNumeric(t)), 1)

\* The stable sort of invert_piecewise: p is inserted behind the points whose
\* physical value is not greater.
RECURSIVE InsertSorted(_, _)
InsertSorted(sorted, p) ==
    IF Len(sorted) = 0 THEN <<p>>
    ELSE IF QLt(p[1], sorted[1][1]) THEN <<p>> \o sorted
    ELSE <<sorted[1]>> \o InsertSorted(Tail(sorted), p)

RECURSIVE SortByPhysical(_, _, _)
SortByPhysical(points, i, sorted) ==
    IF i > Len(points) THEN sorted
    ELSE SortByPhysical(points, i + 1, InsertSorted(sorted, points[i]))

\* Vec::dedup_by: a point whose physical value is within 1e-6 of the last point
\* kept is dropped.
RECURSIVE DedupByPhysical(_, _, _)
DedupByPhysical(pts, i, out) ==
    IF i > Len(pts) THEN out
    ELSE IF Len(out) > 0 /\ AbsLtEpsilon(QSub(pts[i][1], out[Len(out)][1]))
    THEN DedupByPhysical(pts, i + 1, out)
    ELSE DedupByPhysical(pts, i + 1, Append(out, pts[i]))

\* The loop over pts.windows(2), from window w on.
RECURSIVE WindowLoop(_, _, _)
WindowLoop(pts, w, target) ==
    IF w + 1 > Len(pts) THEN None
    ELSE LET x0 == pts[w][1]
             y0 == pts[w][2]
             x1 == pts[w + 1][1]
             y1 == pts[w + 1][2]
         IN  IF \/ QLe(x0, target) /\ QLe(target, x1)
                \/ QLe(x1, target) /\ QLe(target, x0)
             THEN IF AbsLtEpsilon(QSub(x1, x0)) THEN Some(y0)
                  ELSE LET t == QDiv(QSub(target, x0), QSub(x1, x0))
                       IN  Some(QClamp01(QAdd(y0, QMul(t, QSub(y1, y0)))))
             ELSE WindowLoop(pts, w + 1, target)

\* invert_piecewise over points <<physical, norm>>
invert_piecewise(points, target) ==
    IF Len(points) = 0 THEN None
    ELSE LET pts == DedupByPhysical(SortByPhysical(points, 1, <<>>), 1, <<>>)
             min == pts[1][1]
             max == pts[Len(pts)][1]
         IN  IF QLe(target, min) THEN Some(pts[1][2])
             ELSE IF QLe(max, target) THEN Some(pts[Len(pts)][2])
             ELSE WindowLoop(pts, 1, target)

\* parse_ms_or_s, followed by the unit conversion of parse_ms_value
parse_ms_value(s) ==
    LET t == replace(to_ascii_lowercase(trim(s)), " ", "")
        ms == strip_suffix(t, "ms")
        sec == strip_suffix(t, "s")
    IN  IF ms.some THEN parse_f32(ms.s)
        ELSE IF sec.some
        THEN IF parse_f32(sec.s).some
             THEN Some(QMul(parse_f32(sec.s).v, Q(1000, 1)))
             ELSE None
        ELSE None

parse_ms_from_formatted(s) ==
    LET t == replace(to_ascii_lowercase(trim(s)), ",", ".")
        toks == split_whitespace(KeepNumeric(t))
    IN  IF ~(contains(t, "ms") \/ ends_with(t, "s")) THEN None
        ELSE IF Len(toks) = 0 THEN None
        ELSE IF ~parse_f32(toks[1]).some THEN None
        ELSE IF contains(t, "ms") THEN parse_f32(toks[1])
        ELSE Some(QMul(parse_f32(toks[1]).v, Q(1000, 1)))

parse_hz_value(s) ==
    LET t == replace(replace(to_ascii_lowercase(trim(s)), ",", "."), " ", "")
        khz == strip_suffix(t, "khz")
        hz == strip_suffix(t, "hz")
    IN  IF khz.some
        THEN IF parse_f32(khz.s).some
             THEN Some(QMul(parse_f32(khz.s).v, Q(1000, 1)))
             ELSE None
        ELSE IF hz.some THEN parse_f32(hz.s)
        ELSE None

parse_bpm_value(s) ==
    LET t == replace(to_ascii_lowercase(trim(s)), ",", ".")
        toks == split_whitespace(KeepNumeric(t))
    IN  IF ~contains(t, "bpm") THEN None
        ELSE IF Len(toks) = 0 THEN None
        ELSE parse_f32(toks[1])

resolve_amp_type(value) ==
    IF value.type # "string" THEN None
    ELSE LET s == to_ascii_lowercase(normalize_ws(trim(value.str)))
         IN  IF s \in {"clean", "the clean"} THEN Some(Q(0, 1))
             ELSE IF s \in {"crunch", "the crunch", "rust"} THEN Some(Q(1, 2))
             ELSE IF s \in {"lead", "the lead", "hot"} THEN Some(Q(1, 1))
             ELSE None

\* opts.iter().find(pred).map(|o| o.value), pred being a set of positions
FindOption(opts, matching) ==
    IF matching = {} THEN None
    ELSE Some(opts[CHOOSE i \in matching : \A j \in matching : i <= j].value)

resolve_from_enum_label(enums, index, value) ==
    IF value.type # "string" THEN None
    ELSE IF index \notin DOMAIN enums THEN None
    ELSE LET s == normalize_ws(trim(value.str))
             opts == enums[index]
             exact == {i \in 1..Len(opts) : eq_ignore_case(opts[i].label, s)}
             l == replace(to_ascii_lowercase(s), " ", "")
             cab(label) ==
                 FindOption(opts, {i \in 1..Len(opts) :
                                     eq_ignore_ascii_case(opts[i].label, label)})
         IN  IF exact # {} THEN FindOption(opts, exact)
             ELSE IF index # 84 THEN None
             ELSE IF l = "cab1" THEN cab("Cab 1")
             ELSE IF l = "cab2" THEN cab("Cab 2")
             ELSE IF l = "cab3" THEN cab("Cab 3")
             ELSE IF l = "cleancab" THEN cab("Cab 1")
             ELSE IF l = "crunchcab" THEN cab("Cab 2")
             ELSE IF l = "leadcab" THEN cab("Cab 3")
             ELSE None

resolve_eq_band_db(index, s) ==
    LET db == parse_db(s)
    IN  IF ~db.some THEN None
        ELSE IF index \notin 54..82 THEN None
        ELSE Some(QClamp01(QDiv(QSub(db.v, Q(-12, 1)),
                                QSub(Q(12, 1), Q(-12, 1)))))

parse_first_float(s) ==
    LET t == replace(to_ascii_lowercase(trim(s)), ",", ".")
    IN  FirstParsable(split_whitespace(KeepNumeric(t)), 1)

\* ---------------------------- pure: the value resolver (brain_core) - resolve

\* Variant of invert_from_triplet_physical that normalizes without the clamp.
invert_from_triplet_physical_NoClamp(triplets, index, physical) ==
    IF index \notin DOMAIN triplets THEN None
    ELSE LET min == parse_first_float(triplets[index][1])
             max == parse_first_float(triplets[index][3])
         IN  IF ~min.some \/ ~max.some THEN None
             ELSE IF AbsLtEpsilon(QSub(max.v, min.v)) THEN None
             ELSE IF QLe(max.v, Q(3, 2)) /\ QLe(Q(-1, 2), min.v) THEN None
             ELSE Some(QDiv(QSub(physical, min.v), QSub(max.v, min.v)))

\* invert_from_triplet_physical: triplets maps an index to <<min, mid, max>>
\* formatted strings.
invert_from_triplet_physical(triplets, index, physical) ==
    IF index \notin DOMAIN triplets THEN None
    ELSE LET min == parse_first_float(triplets[index][1])
             max == parse_first_float(triplets[index][3])
         IN  IF ~min.some \/ ~max.some THEN None
             ELSE IF AbsLtEpsilon(QSub(max.v, min.v)) THEN None
             ELSE IF QLe(max.v, Q(3, 2)) /\ QLe(Q(-1, 2), min.v) THEN None
             ELSE Some(QClamp01(QDiv(QSub(physical, min.v),
                                     QSub(max.v, min.v))))

\* The points <<physical, norm>> of the samples <<norm, formatted>> whose
\* formatted string the parser of the given unit reads ("db", "ms" or "").
ParsePhysical(unit, formatted) ==
    IF unit = "db" THEN parse_db_from_formatted(formatted)
    ELSE IF unit = "ms" THEN parse_ms_from_formatted(formatted)
    ELSE parse_first_float(formatted)

RECURSIVE ParsedPoints(_, _, _, _)
ParsedPoints(raw, unit, i, pts) ==
    IF i > Len(raw) THEN pts
    ELSE IF ParsePhysical(unit, raw[i][2]).some
    THEN ParsedPoints(raw, unit, i + 1,
                      Append(pts, <<ParsePhysical(unit, raw[i][2]).v, raw[i][1]>>))
    ELSE ParsedPoints(raw, unit, i + 1, pts)

\* invert_from_samples_physical: samples maps an index to a list of
\* <<norm, formatted>>; a sample that does not parse makes the whole call fail.
invert_from_samples_physical(samples, index, physical) ==
    IF index \notin DOMAIN samples THEN None
    ELSE LET raw == samples[index]
             lower(i) == to_ascii_lowercase(raw[i][2])
             has_db == \E i \in 1..Len(raw) : contains(lower(i), "db")
             has_ms == \E i \in 1..Len(raw) :
                           contains(lower(i), "ms") \/ ends_with(trim_end(lower(i)), "s")
             unit == IF has_db THEN "db" ELSE IF has_ms THEN "ms" ELSE ""
             pts == ParsedPoints(raw, unit, 1, <<>>)
         IN  IF Len(raw) = 0 THEN None
             ELSE IF Len(pts) < Len(raw) THEN None
             ELSE invert_piecewise(pts, physical)

\* Result<f32, ResolveError>; err names the message of the error.
ResolveOk(v) == [ok |-> TRUE, v |-> v, err |-> ""]
ResolveErr(e) == [ok |-> FALSE, v |-> Q(0, 1), err |-> e]

\* Variant of the numeric branch that falls back to clamping the value.
ResolveNumeric_ClampFallback(samples, triplets, index, v) ==
    IF QLe(Q(0, 1), v) /\ QLe(v, Q(1, 1)) THEN ResolveOk(v)
    ELSE IF index \in {90, 97} /\ QLe(Q(-1, 1), v) /\ QLe(v, Q(1, 1))
    THEN ResolveOk(QClamp01(QMul(QAdd(v, Q(1, 1)), Q(1, 2))))
    ELSE IF invert_from_samples_physical(samples, index, v).some
    THEN ResolveOk(invert_from_samples_physical(samples, index, v).v)
    ELSE IF invert_from_triplet_physical(triplets, index, v).some
    THEN ResolveOk(invert_from_triplet_physical(triplets, index, v).v)
    ELSE ResolveOk(QClamp01(v))

\* resolve_value_for_index, the branch of a value that parses as a number.
ResolveNumeric(samples, triplets, index, v) ==
    IF QLe(Q(0, 1), v) /\ QLe(v, Q(1, 1)) THEN ResolveOk(v)
    ELSE IF index \in {90, 97} /\ QLe(Q(-1, 1), v) /\ QLe(v, Q(1, 1))
    THEN ResolveOk(QClamp01(QMul(QAdd(v, Q(1, 1)), Q(1, 2))))
    ELSE IF invert_from_samples_physical(samples, index, v).some
    THEN ResolveOk(invert_from_samples_physical(samples, index, v).v)
    ELSE IF invert_from_triplet_physical(triplets, index, v).some
    THEN ResolveOk(invert_from_triplet_physical(triplets, index, v).v)
    ELSE ResolveErr("not a normalized 0..1 value")

\* resolve_value_for_index, the block of a string that contains "db": the value
\* it returns, None when it falls through.
ResolveDb(samples, triplets, index, s_trim) ==
    LET db == parse_db(s_trim)
        pts == ParsedPoints(samples[index], "db", 1, <<>>)
    IN  IF ~contains(to_ascii_lowercase(s_trim), "db") THEN None
        ELSE IF eq_ignore_ascii_case(trim(s_trim), "flat") /\ index \in 54..82
        THEN Some(Q(1, 2))
        ELSE IF ~db.some THEN None
        ELSE IF index \in DOMAIN samples /\ invert_piecewise(pts, db.v).some
        THEN invert_piecewise(pts, db.v)
        ELSE IF resolve_eq_band_db(index, s_trim).some
        THEN resolve_eq_band_db(index, s_trim)
        ELSE invert_from_triplet_physical(triplets, index, db.v)

\* resolve_value_for_index, the block of a string with a time unit.
ResolveMs(samples, triplets, index, ms) ==
    LET pts == ParsedPoints(samples[index], "ms", 1, <<>>)
    IN  IF index \in DOMAIN samples /\ invert_piecewise(pts, ms).some
        THEN ResolveOk(invert_piecewise(pts, ms).v)
        ELSE IF invert_from_triplet_physical(triplets, index, ms).some
        THEN ResolveOk(invert_from_triplet_physical(triplets, index, ms).v)
        ELSE ResolveErr("time unit provided but no mapping")

\* resolve_value_for_index, the blocks of a string with a bpm or a hz unit.
ResolvePhysical(samples, triplets, index, physical, unit) ==
    IF invert_from_samples_physical(samples, index, physical).some
    THEN ResolveOk(invert_from_samples_physical(samples, index, physical).v)
    ELSE IF invert_from_triplet_physical(triplets, index, physical).some
    THEN ResolveOk(invert_from_triplet_physical(triplets, index, physical).v)
    ELSE ResolveErr(unit \o " unit provided but no mapping")

\* resolve_value_for_index(prompt, enums, samples, triplets, index, value). An
\* absent samples map is the empty map; the prompt only selects the wording of
\* the last error.
resolve_value_for_index(enums, samples, triplets, index, value) ==
    IF parse_numeric_value(value).some
    THEN ResolveNumeric(samples, triplets, index, parse_numeric_value(value).v)
    ELSE IF value.type # "string" THEN ResolveErr("unsupported value type")
    ELSE LET s_trim == trim(value.str)
         IN  IF s_trim = "" THEN ResolveErr("empty string value")
             ELSE IF parse_bool_like(s_trim).some
             THEN ResolveOk(parse_bool_like(s_trim).v)
             ELSE IF index = 29 /\ resolve_amp_type(value).some
             THEN ResolveOk(resolve_amp_type(value).v)
             ELSE IF resolve_from_enum_label(enums, index, value).some
             THEN ResolveOk(QClamp01(resolve_from_enum_label(enums, index, value).v))
             ELSE IF contains(s_trim, "%") /\ parse_percent(s_trim).some
             THEN ResolveOk(parse_percent(s_trim).v)
             ELSE IF ResolveDb(samples, triplets, index, s_trim).some
             THEN ResolveOk(ResolveDb(samples, triplets, index, s_trim).v)
             ELSE IF parse_ms_value(s_trim).some
             THEN ResolveMs(samples, triplets, index, parse_ms_value(s_trim).v)
             ELSE IF parse_bpm_value(s_trim).some
             THEN ResolvePhysical(samples, triplets, index,
                                  parse_bpm_value(s_trim).v, "bpm")
             ELSE IF parse_hz_value(s_trim).some
             THEN ResolvePhysical(samples, triplets, index,
                                  parse_hz_value(s_trim).v, "hz")
             ELSE ResolveErr("could not resolve string value")

\* ------------------------------------------------ value resolve on its own

\* default_enum_options (the reverb-mode entry is left out: param_map.rs does
\* not define its index)
MicOptions ==
    << [value |-> Q(171, 4096), label |-> "Dynamic 57"],
       [value |-> Q(683, 4096), label |-> "Dynamic 421"],
       [value |-> Q(683, 2048), label |-> "Condenser 414"],
       [value |-> Q(2049, 4096), label |-> "Condenser 184"],
       [value |-> Q(683, 1024), label |-> "Ribbon 160"],
       [value |-> Q(3415, 4096), label |-> "Ribbon 121"],
       [value |-> Q(1963, 2048), label |-> "Custom IR"] >>

default_enum_options ==
    (84 :> << [value |-> Q(129, 1024), label |-> "Cab 1"],
              [value |-> Q(513, 1024), label |-> "Cab 2"],
              [value |-> Q(7, 8), label |-> "Cab 3"] >>)
    @@ (92 :> MicOptions)
    @@ (99 :> MicOptions)
    @@ (5 :> << [value |-> Q(33, 256), label |-> "FATSO"],
                [value |-> Q(129, 256), label |-> "BLADE 1"],
                [value |-> Q(7, 8), label |-> "BLADE 2"] >>)

default_formatted_value_triplets ==
    (0 :> <<"-24.0", "0.0", "24.0">>)
    @@ (1 :> <<"-24.0", "0.0", "24.0">>)
    @@ (2 :> <<"-96.0", "-48.0", "0.0">>)
    @@ (108 :> <<"40.0", "140.0", "240.0">>)
    @@ (115 :> <<"250.00", "5125.00", "10000.00">>)
    @@ (116 :> <<"50", "375", "700">>)
    @@ (117 :> <<"1000", "5500", "10000">>)

\* What the prompt's ENUM_OPTIONS_JSON, PARAM_FORMAT_SAMPLES_JSON and
\* FORMATTED_VALUE_TRIPLETS_JSON lines carry: nothing; sample-probe data of a dB,
\* a plain, a time and an EQ-band parameter; triplets of a normalized
\* parameter, of a physical one and of an EQ band.
Prompts ==
    { [enums |-> <<>>, samples |-> <<>>, triplets |-> <<>>],
      [enums |-> <<>>,
       samples |->
           (2 :> << <<Q(0, 1), "-96.0 dB">>, <<Q(1, 2), "-24.0 dB">>,
                    <<Q(1, 1), "0.0 dB">> >>)
           @@ (108 :> << <<Q(1, 1), "240.0">>, <<Q(0, 1), "40.0">>,
                         <<Q(1, 4), "140.0">> >>)
           @@ (115 :> << <<Q(0, 1), "250 ms">>, <<Q(1, 1), "10.00 s">> >>)
           @@ (60 :> << <<Q(0, 1), "-6.0 dB">>, <<Q(1, 1), "6.0 dB">> >>),
       triplets |-> <<>>],
      [enums |-> <<>>, samples |-> <<>>,
       triplets |-> (30 :> <<"0.0", "0.5", "1.0">>)
                    @@ (5 :> <<"-10.0 dB", "0.0 dB", "10.0 dB">>)
                    @@ (54 :> <<"20 Hz", "200 Hz", "2000 Hz">>)] }

\* HashMap::insert of every entry of the prompt's map into the default one
MergeMaps(defaults, from_prompt) ==
    [k \in DOMAIN defaults \cup DOMAIN from_prompt |->
        IF k \in DOMAIN from_prompt THEN from_prompt[k] ELSE defaults[k]]

\* The indices proposals are made for: gate, a selector with enum labels, the amp
\* selector, a plain parameter, EQ bands, the cab selector, the two pans, delay
\* tempo, reverb time and reverb low cut.
ProposalIndices == {2, 5, 29, 30, 54, 60, 84, 90, 97, 108, 115, 116}

ProposalNumbers ==
    { Q(0, 1), Q(1, 2), Q(1, 1), Q(-1, 2), Q(-1, 1), Q(6, 5), Q(650, 1),
      Q(-30, 1), Q(120, 1) }

ProposalStrings ==
    { "flat", " FLAT ", "Flat", "flat dB", "0 dB", "-30 dB", "10 dB", "+3,5 db",
      "120 bpm", "300 BPM", "150 Hz", "6.5 kHz", "250 ms", "2 s", "25%", "on",
      "Off", "lead", "Cab 3", "cab3", "blade  1", "0.5", " 0.25 ", "650", "",
      "loud" }

ProposalValues ==
    {JsonNumber(q) : q \in ProposalNumbers}
        \cup {JsonString(s) : s \in ProposalStrings}
        \cup {JsonBool}

\* The sidecar is idle; a proposal (index, value) and a prompt are given.
ResolveInit ==
    /\ active = NoToken
    /\ netpc = "accept"
    /\ nextTok = 0
    /\ inbound = <<>>
    /\ outbound = <<>>
    /\ active_session_token = NoToken
    /\ validation_ready = FALSE
    /\ lookup = EmptyLookup
    /\ last_project_change_count = 0
    /\ last_track_count = -1
    /\ last_total_fx_count = -1
    /\ elapsed = PROJECT_CHANGED_DEBOUNCE
    /\ chain = <<>>
    /\ fxparams = [g \in Guids |-> <<>>]
    /\ proj_state = 0
    /\ reportEnabled = FALSE
    /\ lifecycle = Running
    /\ actor = ActorStart
    /\ index_remap = <<>>
    /\ param_cache = [g \in Guids |-> <<>>]
    /\ hsSeen = FALSE
    /\ firstMsg = "none"
    /\ nextCmd = 0
    /\ acked = {}
    /\ readySessions = {}
    /\ \E index \in ProposalIndices, value \in ProposalValues, prompt \in Prompts :
           last = [op |-> "proposal", index |-> index, value |-> value,
                   prompt |-> prompt]

\* resolve_ai_params on one proposal: the calibration maps are built from the
\* defaults and the prompt, and the value is resolved.
ResolveAiParam ==
    /\ last.op = "proposal"
    /\ LET enums == MergeMaps(default_enum_options, last.prompt.enums)
           samples == last.prompt.samples
           triplets == MergeMaps(default_formatted_value_triplets,
                                 last.prompt.triplets)
       IN  last' = [op |-> "resolve", index |-> last.index, value |-> last.value,
                    samples |-> samples, triplets |-> triplets,
                    result |-> resolve_value_for_index(enums, samples, triplets,
                                                       last.index, last.value)]
    /\ PureUnchanged

NextResolve == ResolveAiParam

SpecResolve == ResolveInit /\ [][NextResolve]_vars

\* ------------------------------------------------- reading a value resolve

\* The last step resolved a proposal.
Resolved == last.op = "resolve"

\* The index of the resolved proposal has sample-probe data.
HasSamples == last.index \in DOMAIN last.samples

\* The (min, max) of the triplet of the resolved proposal's index.
TripletMin == parse_first_float(last.triplets[last.index][1]).v
TripletMax == parse_first_float(last.triplets[last.index][3]).v

\* The index of the resolved proposal has a triplet whose (min, max) is a
\* physical range: it is not inside [-0.5, 1.5].
HasPhysicalTriplet ==
    /\ last.index \in DOMAIN last.triplets
    /\ QLt(TripletMin, TripletMax)
    /\ QLt(TripletMin, Q(-1, 2)) \/ QLt(Q(3, 2), TripletMax)

\* (x - min) / (max - min) clamped to [0, 1], for the triplet of the index
TripletNormalized(x) ==
    QClamp01(QDiv(QSub(x, TripletMin), QSub(TripletMax, TripletMin)))

InUnitInterval(v) == QLe(Q(0, 1), v) /\ QLe(v, Q(1, 1))

\* ------------------------------------------------------------------- C22

\* C22: value-resolve of a numeric value v: v in [0,1] is returned unchanged; on
\* a pan index (90 or 97) v in [-1,1] is mapped to (v+1)/2; any other numeric v
\* is accepted only when the index has sample-probe data or a physical-range
\* triplet (with the triplet alone, as its inversion), and fails otherwise: it
\* is never clamped into [0,1]; 650 on index 54 is an error.
C22_NumericResolvedOrRejected ==
    (Resolved /\ parse_numeric_value(last.value).some) =>
        LET v == parse_numeric_value(last.value).v
            r == last.result
        IN  IF InUnitInterval(v) THEN r.ok /\ r.v = v
            ELSE IF last.index \in {90, 97} /\ QLe(Q(-1, 1), v) /\ QLe(v, Q(1, 1))
            THEN r.ok /\ r.v = QMul(QAdd(v, Q(1, 1)), Q(1, 2))
            ELSE /\ r.ok => (HasSamples \/ HasPhysicalTriplet)
                 /\ (r.ok /\ ~HasSamples) => r.v = TripletNormalized(v)
                 /\ (last.index = 54 /\ v = Q(650, 1) /\ ~HasSamples
                         /\ ~HasPhysicalTriplet) => ~r.ok

\* C22 witness: the number 650 was proposed for EQ band 54, which has neither
\* samples nor a triplet, and the resolve failed.
C22_Witness ==
    /\ Resolved
    /\ last.index = 54
    /\ last.value = JsonNumber(Q(650, 1))
    /\ ~HasSamples
    /\ ~HasPhysicalTriplet
    /\ ~last.result.ok

\* ------------------------------------------------------------------- C23

\* Strings with a dB, BPM or Hz unit, and the physical value x each one names.
UnitStrings ==
    { <<"0 dB", Q(0, 1)>>, <<"-30 dB", Q(-30, 1)>>, <<"10 dB", Q(10, 1)>>,
      <<"+3,5 db", Q(7, 2)>>, <<"120 bpm", Q(120, 1)>>, <<"300 BPM", Q(300, 1)>>,
      <<"150 Hz", Q(150, 1)>>, <<"6.5 kHz", Q(6500, 1)>> }

\* C23: a string with a dB, BPM or Hz unit naming x, for an index without
\* sample-probe data that is not a graphic-EQ band and has a physical-range
\* triplet (min, mid, max), resolves to (x - min)/(max - min) clamped to [0,1]:
\* "-30 dB" on the gate index (2) gives 0.6875, "120 bpm" on 108 gives 0.4 and
\* "150 Hz" on 116 gives 100/650.
C23_UnitStringUsesTriplet ==
    Resolved =>
        /\ \A u \in UnitStrings :
               (/\ last.value = JsonString(u[1])
                /\ ~HasSamples
                /\ last.index \notin 54..82
                /\ HasPhysicalTriplet)
               => (last.result.ok /\ last.result.v = TripletNormalized(u[2]))
        /\ (~HasSamples /\ last.triplets[2] = <<"-96.0", "-48.0", "0.0">>
               /\ last.index = 2 /\ last.value = JsonString("-30 dB"))
               => last.result = ResolveOk(Q(6875, 10000))
        /\ (~HasSamples /\ last.index = 108 /\ last.value = JsonString("120 bpm"))
               => last.result = ResolveOk(Q(4, 10))
        /\ (~HasSamples /\ last.index = 116 /\ last.value = JsonString("150 Hz"))
               => last.result = ResolveOk(Q(100, 650))

\* C23 witness: "10 dB" was resolved on the gate index with its default triplet
\* and no samples: 10 dB is above the range and the result is clamped to 1.0.
C23_Witness ==
    /\ Resolved
    /\ last.index = 2
    /\ last.value = JsonString("10 dB")
    /\ ~HasSamples
    /\ HasPhysicalTriplet
    /\ last.result = ResolveOk(Q(1, 1))

\* ------------------------------------------------------------------- C24

\* C24: resolving the string "flat" (any letter case, surrounding whitespace
\* ignored) on a graphic-EQ band index (54..82) succeeds and yields 0.5.
C24_FlatOnEqBandIsHalf ==
    (/\ Resolved
     /\ last.value.type = "string"
     /\ to_ascii_lowercase(trim(last.value.str)) = "flat"
     /\ last.index \in 54..82)
    => last.result = ResolveOk(Q(1, 2))

\* ----------------------------------------- the UI client (src-tauri commands)

\* set_index_remap's loop over the entries, from the i-th on.
RECURSIVE SetRemapLoop(_, _, _)
SetRemapLoop(entries, i, map) ==
    IF i > Len(entries) THEN map
    ELSE IF entries[i].from # entries[i].to
    THEN SetRemapLoop(entries, i + 1,
             [k \in DOMAIN map \cup {entries[i].from} |->
                 IF k = entries[i].from THEN entries[i].to ELSE map[k]])
    ELSE SetRemapLoop(entries, i + 1, map)

apply_index_remap(params, remap) ==
    IF DOMAIN remap = {} THEN params
    ELSE [i \in 1..Len(params) |->
             IF params[i].index \in DOMAIN remap
             THEN P(remap[params[i].index], params[i].value)
             ELSE params[i]]

\* The four lines shared by generate_tone and apply_tone_inner: sanitize, clean,
\* remap, sanitize.
ClientPipeline(mode, params, remap) ==
    LET first == client_sanitize_params(params)
        cleaned == client_apply_replace_active_cleaner(mode, first.out)
        second == client_sanitize_params(apply_index_remap(cleaned, remap))
    IN  IF ~first.ok THEN [ok |-> FALSE, out |-> <<>>, cleaned |-> <<>>]
        ELSE IF ~second.ok THEN [ok |-> FALSE, out |-> <<>>, cleaned |-> cleaned]
        ELSE [ok |-> TRUE, out |-> second.out, cleaned |-> cleaned]

\* reverse_index_remap: actual -> canonical. The loop runs in the HashMap's
\* iteration order, so when several canonical indices share an actual index any
\* of them can be the one that stays.
ReverseMaps(remap) ==
    LET actuals == {remap[c] : c \in DOMAIN remap}
    IN  {r \in [actuals -> DOMAIN remap] : \A a \in actuals : remap[r[a]] = a}

label_for_index(index, reverse) ==
    LET canonical == IF index \in DOMAIN reverse THEN reverse[index] ELSE index
    IN  CASE canonical = 0 -> "Global: Input Gain"
          [] canonical = 1 -> "Global: Output Gain"
          [] canonical = 2 -> "Global: Noise Gate"
          [] canonical = 29 -> "Amp: Type Select"
          [] canonical = 13 -> "Overdrive: Active"
          [] canonical = 14 -> "Overdrive: Drive"
          [] canonical = 15 -> "Overdrive: Tone"
          [] canonical = 16 -> "Overdrive: Level"
          [] canonical = 101 -> "Delay: Active"
          [] canonical = 105 -> "Delay: Mix"
          [] canonical = 108 -> "Delay: Time"
          [] canonical = 112 -> "Reverb: Active"
          [] canonical = 114 -> "Reverb: Mix"
          [] canonical = 115 -> "Reverb: Time"
          [] canonical = 116 -> "Reverb: Low Cut"
          [] canonical = 117 -> "Reverb: High Cut"
          [] OTHER -> "Param"

\* params.iter().map(|p| (p.index, p.value)).collect::<HashMap>(): a later
\* entry replaces an earlier one of the same index.
CollectMap(params) ==
    [k \in {params[i].index : i \in 1..Len(params)} |->
        params[CHOOSE i \in 1..Len(params) :
                   /\ params[i].index = k
                   /\ \A j \in 1..Len(params) : params[j].index = k => j <= i].value]

\* HashMap::get(&idx).copied(): Option<f32>
GetCopied(map, idx) ==
    IF idx \in DOMAIN map THEN [some |-> TRUE, v |-> map[idx]]
    ELSE [some |-> FALSE, v |-> 0]

\* keys.sort_unstable(); keys.dedup()
RECURSIVE SortedKeys(_)
SortedKeys(S) ==
    IF S = {} THEN <<>>
    ELSE LET m == CHOOSE x \in S : \A y \in S : x <= y
         IN  <<m>> \o SortedKeys(S \ {m})

DiffItem(label, index, old_value, new_value) ==
    [label |-> label, index |-> index, old_value |-> old_value,
     new_value |-> new_value]

\* Variant of the diff's filter that keeps only the indices the new list has.
RECURSIVE DiffLoop_NewOnly(_, _, _, _, _, _)
DiffLoop_NewOnly(keys, i, old, new, reverse, out) ==
    IF i > Len(keys) THEN out
    ELSE LET o == GetCopied(old, keys[i])
             n == GetCopied(new, keys[i])
         IN  IF o = n \/ ~n.some
             THEN DiffLoop_NewOnly(keys, i + 1, old, new, reverse, out)
             ELSE DiffLoop_NewOnly(keys, i + 1, old, new, reverse,
                      Append(out, DiffItem(label_for_index(keys[i], reverse),
                                           keys[i], o, n)))

\* The filter_map of diff_params over the sorted keys, from the i-th on.
RECURSIVE DiffLoop(_, _, _, _, _, _)
DiffLoop(keys, i, old, new, reverse, out) ==
    IF i > Len(keys) THEN out
    ELSE LET o == GetCopied(old, keys[i])
             n == GetCopied(new, keys[i])
         IN  IF o = n
             THEN DiffLoop(keys, i + 1, old, new, reverse, out)
             ELSE DiffLoop(keys, i + 1, old, new, reverse,
                      Append(out, DiffItem(label_for_index(keys[i], reverse),
                                           keys[i], o, n)))

\* diff_params(old_params, new_params, index_remap), given the reverse map that
\* reverse_index_remap built.
diff_params(old_params, new_params, reverse) ==
    LET old == CollectMap(old_params)
        new == CollectMap(new_params)
    IN  DiffLoop(SortedKeys(DOMAIN old \cup DOMAIN new), 1, old, new, reverse, <<>>)

\* What the UI gives to set_index_remap: nothing, an identity entry, a swap,
\* two entries onto one index (alone and with an entry that is replaced), an
\* entry onto an out-of-range index, a chain that ends out of range.
RemapEntryLists ==
    { <<>>,
      << [from |-> 2, to |-> 2] >>,
      << [from |-> 2, to |-> 3], [from |-> 3, to |-> 2] >>,
      << [from |-> 14, to |-> 3] >>,
      << [from |-> 2, to |-> 5000], [from |-> 2, to |-> 3],
         [from |-> 14, to |-> 3] >>,
      << [from |-> 2, to |-> 5000] >>,
      << [from |-> 3, to |-> 2], [from |-> 2, to |-> 5000] >> }

\* The parameter lists the UI (or the model's tone) proposes.
UiParamLists ==
    { <<>>,
      << P(2, 900) >>,
      << P(14, 800) >>,
      << P(14, 800), P(3, One) >>,
      << P(3, One), P(14, 800) >>,
      << P(2, NonFinite) >> }

\* The UI has just started: AppState::default-like maps, the sidecar idle.
UiInit ==
    /\ active = NoToken
    /\ netpc = "accept"
    /\ nextTok = 0
    /\ inbound = <<>>
    /\ outbound = <<>>
    /\ active_session_token = NoToken
    /\ validation_ready = FALSE
    /\ lookup = EmptyLookup
    /\ last_project_change_count = 0
    /\ last_track_count = -1
    /\ last_total_fx_count = -1
    /\ elapsed = PROJECT_CHANGED_DEBOUNCE
    /\ chain = <<>>
    /\ fxparams = [g \in Guids |-> <<>>]
    /\ proj_state = 0
    /\ reportEnabled = FALSE
    /\ lifecycle = Running
    /\ actor = ActorStart
    /\ index_remap = <<>>
    /\ param_cache = [g \in Guids |-> <<>>]
    /\ hsSeen = FALSE
    /\ firstMsg = "none"
    /\ nextCmd = 0
    /\ acked = {}
    /\ readySessions = {}
    /\ last = [op |-> "init"]

UiUnchanged ==
    UNCHANGED <<netVars, chanVars, mainVars, elapsed, dawVars, reportEnabled,
                sideVars,
                clientVars, nextCmd, histVars>>

\* set_index_remap(entries)
SetIndexRemap ==
    /\ \E entries \in RemapEntryLists :
           /\ index_remap' = SetRemapLoop(entries, 1, <<>>)
           /\ last' = [op |-> "set_index_remap", entries |-> entries]
    /\ UNCHANGED param_cache
    /\ UiUnchanged

\* reset_index_remap()
ResetIndexRemap ==
    /\ index_remap' = <<>>
    /\ last' = [op |-> "reset_index_remap"]
    /\ UNCHANGED param_cache
    /\ UiUnchanged

\* apply_tone(target_fx_guid, mode, params) for the instance "F1": the pipeline,
\* then the SetTone is handed to the ws actor and the cache entry is replaced.
\* (The ws actor is running: the send to it succeeds.)
ApplyTone ==
    /\ \E mode \in MergeModes, params \in UiParamLists :
           LET r == ClientPipeline(mode, params, index_remap)
           IN  /\ last' = [op |-> "apply_tone", mode |-> mode, params |-> params,
                           preview_only |-> FALSE, ok |-> r.ok,
                           cleaned |-> r.cleaned, returned |-> <<>>,
                           sends |-> IF r.ok THEN <<r.out>> ELSE <<>>,
                           old |-> <<>>, diffed |-> FALSE, diff |-> <<>>,
                           reverse |-> <<>>]
               /\ param_cache' = IF r.ok THEN [param_cache EXCEPT !["F1"] = r.out]
                                 ELSE param_cache
    /\ UNCHANGED index_remap
    /\ UiUnchanged

\* generate_tone(target_fx_guid, prompt, preview_only) for the instance "F1",
\* from the tone the model answered: the pipeline in ReplaceActive mode, the
\* diff against the cache and, unless preview_only, apply_tone_inner on the
\* pipeline's output.
GenerateTone ==
    /\ \E preview_only \in BOOLEAN, params \in UiParamLists,
          reverse \in ReverseMaps(index_remap) :
           LET r == ClientPipeline("replace_active", params, index_remap)
               d == diff_params(param_cache["F1"], r.out, reverse)
               inner == ClientPipeline("replace_active", r.out, index_remap)
               sent == r.ok /\ ~preview_only /\ inner.ok
           IN  /\ last' = [op |-> "generate_tone", mode |-> "replace_active",
                           params |-> params, preview_only |-> preview_only,
                           ok |-> r.ok /\ (preview_only \/ inner.ok),
                           cleaned |-> r.cleaned,
                           returned |-> IF r.ok THEN r.out ELSE <<>>,
                           sends |-> IF sent THEN <<inner.out>> ELSE <<>>,
                           old |-> param_cache["F1"], diffed |-> r.ok,
                           diff |-> IF r.ok THEN d ELSE <<>>,
                           reverse |-> reverse]
               /\ param_cache' = IF sent THEN [param_cache EXCEPT !["F1"] = inner.out]
                                 ELSE param_cache
    /\ UNCHANGED index_remap
    /\ UiUnchanged

NextUi ==
    \/ SetIndexRemap
    \/ ResetIndexRemap
    \/ ApplyTone
    \/ GenerateTone

SpecUi == UiInit /\ [][NextUi]_vars

\* ------------------------------------------------------- reading the UI

\* The list of the SetTone the last UI command handed to the ws actor.
ToneSent == last.op \in {"apply_tone", "generate_tone"} /\ last.sends # <<>>

\* A list with each index looked up in the remap once.
RemappedOnce(params) ==
    [i \in 1..Len(params) |->
        P(IF params[i].index \in DOMAIN index_remap
          THEN index_remap[params[i].index] ELSE params[i].index,
          params[i].value)]

\* ------------------------------------------------------------------- C25

\* C25: identity entries (from = to) are never stored in the remap; the list the
\* client pipeline finally produces is the clean's output with each index
\* rewritten through the remap once (no chaining) and then sanitized: it has
\* unique in-range indices, and where several entries land on one index the
\* later one wins.
C25_RemapOnceThenSanitize ==
    /\ \A k \in DOMAIN index_remap : index_remap[k] # k
    /\ ToneSent =>
           LET sent == last.sends[1]
               once == RemappedOnce(last.cleaned)
           IN  /\ WellFormed(sent)
               /\ Indices(sent) = Indices(once)
               /\ \A i \in 1..Len(sent) :
                      sent[i].value = once[LastOcc(once, sent[i].index)].value

\* ------------------------------------------------------------------- C26

\* Option<f32> of an index in a parameter list.
ValueIn(params, k) ==
    IF k \in Indices(params)
    THEN [some |-> TRUE, v |-> params[LastOcc(params, k)].value]
    ELSE [some |-> FALSE, v |-> 0]

\* The label table of the diff.
KnownLabels ==
    (0 :> "Global: Input Gain") @@ (1 :> "Global: Output Gain")
    @@ (2 :> "Global: Noise Gate") @@ (29 :> "Amp: Type Select")
    @@ (13 :> "Overdrive: Active") @@ (14 :> "Overdrive: Drive")
    @@ (15 :> "Overdrive: Tone") @@ (16 :> "Overdrive: Level")
    @@ (101 :> "Delay: Active") @@ (105 :> "Delay: Mix")
    @@ (108 :> "Delay: Time") @@ (112 :> "Reverb: Active")
    @@ (114 :> "Reverb: Mix") @@ (115 :> "Reverb: Time")
    @@ (116 :> "Reverb: Low Cut") @@ (117 :> "Reverb: High Cut")

LabelOf(canonical) ==
    IF canonical \in DOMAIN KnownLabels THEN KnownLabels[canonical] ELSE "Param"

\* C26: diff_params(old, new) has exactly one DiffItem for each index whose
\* value differs between old and new (present in only one of them, or in both
\* with different values), carrying those two values, and none for an index with
\* equal values, in ascending index order; diff_params(x, x) is empty; the label
\* is that of a canonical index the remap maps to the item's index (of the index
\* itself when there is none), "Param" for an index without a label.
C26_DiffListsEveryChange ==
    (last.op = "generate_tone" /\ last.diffed) =>
        LET old == last.old
            new == last.returned
            d == last.diff
            keys == Indices(old) \cup Indices(new)
        IN  /\ \A k \in keys :
                   Cardinality({i \in 1..Len(d) : d[i].index = k})
                       = IF ValueIn(old, k) # ValueIn(new, k) THEN 1 ELSE 0
            /\ \A i \in 1..Len(d) :
                   /\ d[i].index \in keys
                   /\ d[i].old_value = ValueIn(old, d[i].index)
                   /\ d[i].new_value = ValueIn(new, d[i].index)
                   /\ LET canon == {c \in DOMAIN index_remap :
                                       index_remap[c] = d[i].index}
                      IN  IF canon = {} THEN d[i].label = LabelOf(d[i].index)
                          ELSE \E c \in canon : d[i].label = LabelOf(c)
            /\ \A i, j \in 1..Len(d) : i < j => d[i].index < d[j].index
            /\ old = new => d = <<>>

\* C26 witness: a diff against a non-empty cache under the remap 14 -> 3: the
\* item of index 3 is labelled as the overdrive drive, its value changed, and
\* an index of the cache that the new list lacks is listed too.
C26_Witness ==
    /\ last.op = "generate_tone"
    /\ last.diffed
    /\ \E i \in 1..Len(last.diff) :
           /\ last.diff[i].index = 3
           /\ last.diff[i].label = "Overdrive: Drive"
           /\ last.diff[i].old_value.some
           /\ last.diff[i].new_value.some
    /\ \E i \in 1..Len(last.diff) :
           /\ last.diff[i].old_value.some
           /\ ~last.diff[i].new_value.some

\* ------------------------------------------- resolve_fx, several instances

\* GUIDs of the instances of a project with more than one target plugin.
LookupGuids == {"F1", "F2", "F3"}
\* Number of SetTone commands the client issues / of changes the user makes.
MaxLookupCmds == 2
MaxLookupChanges == 2

\* The SetTone payloads of this specification: one per instance, one for a GUID
\* that no FX has.
LookupTones ==
    {[guid |-> g, mode |-> "merge", params |-> <<P(30, 420)>>] :
        g \in LookupGuids \cup {UnknownGuid}}

\* A session after its Handshake (validation report enabled), in a project with
\* one to three instances that the watchdog has already observed; the cache is
\* the one the Handshake's scan left.
LookupInit ==
    /\ active = 1
    /\ netpc = "read"
    /\ nextTok = MaxSessions
    /\ inbound = <<>>
    /\ outbound = <<>>
    /\ active_session_token = 1
    /\ reportEnabled = TRUE
    /\ lifecycle = Running
    /\ actor = ActorStart
    /\ index_remap = <<>>
    /\ param_cache = [g \in Guids |-> <<>>]
    /\ validation_ready = validate_parameter_map(reportEnabled)
    /\ chain \in {<<"F1">>, <<"F1", "F2">>, <<"F1", "F2", "F3">>}
    /\ lookup = scan_project_instances(chain).lookup
    /\ last_project_change_count = 0
    /\ last_track_count = TrackCount
    /\ last_total_fx_count = Len(chain)
    /\ elapsed = PROJECT_CHANGED_DEBOUNCE
    /\ fxparams = [g \in LookupGuids |-> <<>>]
    /\ proj_state = 0
    /\ hsSeen = TRUE
    /\ firstMsg = "handshake"
    /\ nextCmd = 0
    /\ acked = {}
    /\ readySessions = {1}
    /\ last = [op |-> "init"]

\* run_server, the read of one SetTone frame from the active client.
ReadSetTone ==
    /\ netpc = "read"
    /\ active # NoToken
    /\ hsSeen
    /\ nextCmd < MaxLookupCmds
    /\ netpc' = "accept"
    /\ \E tone \in LookupTones :
        LET frame == SetTone(active, nextCmd + 1, tone)
        IN  /\ last' = [op |-> "read", frame |-> frame,
                        direct |-> Direct(frame), queued |-> Queued(frame)]
            /\ inbound' = IF Queued(frame) THEN Append(inbound, Command(frame))
                          ELSE inbound
            /\ IF Direct(frame) # "none"
               THEN Receive(Error(Direct(frame), 0))
               ELSE UNCHANGED clientVars
    /\ nextCmd' = nextCmd + 1
    /\ UNCHANGED <<active, nextTok, outbound, mainVars, elapsed, dawVars,
                   reportEnabled, uiVars, sideVars, histVars>>

\* The user inserts another instance at the head or the end of the chain.
LookupInsertFx ==
    /\ proj_state < MaxLookupChanges
    /\ \E g \in LookupGuids \ SeqToSet(chain) :
        \E atHead \in BOOLEAN :
            chain' = IF atHead THEN <<g>> \o chain ELSE Append(chain, g)
    /\ proj_state' = proj_state + 1
    /\ last' = [op |-> "other"]
    /\ UNCHANGED <<netVars, chanVars, mainVars, elapsed, fxparams, reportEnabled,
                   uiVars, sideVars, clientVars, nextCmd, histVars>>

\* The user drags an FX one slot up: two neighbours change places, the counts
\* stay.
LookupMoveFx ==
    /\ proj_state < MaxLookupChanges
    /\ \E s \in 1..(Len(chain) - 1) :
        chain' = [chain EXCEPT ![s] = chain[s + 1], ![s + 1] = chain[s]]
    /\ proj_state' = proj_state + 1
    /\ last' = [op |-> "other"]
    /\ UNCHANGED <<netVars, chanVars, mainVars, elapsed, fxparams, reportEnabled,
                   uiVars, sideVars, clientVars, nextCmd, histVars>>

LookupRemoveFx == RemoveFx(MaxLookupChanges)

NextLookup ==
    \/ DrainOne
    \/ DrainEmpty
    \/ ReadSetTone
    \/ ReadTimeout
    \/ Tick
    \/ LookupInsertFx
    \/ LookupMoveFx
    \/ LookupRemoveFx
    \/ TimePasses

SpecLookup == LookupInit /\ [][NextLookup]_vars

\* The rescans of the tick that resolve_fx made for the SetTone.
ApplyScans == {i \in DOMAIN last.scans : last.scans[i] = "apply"}

TargetNotFoundSent ==
    \E i \in DOMAIN last.sends :
        /\ last.sends[i].type = "error"
        /\ last.sends[i].code = "target_not_found"

\* C27: a tick that handled a SetTone writes only to an FX whose GUID, read at
\* the slot that resolve_fx returned, is the SetTone's target_fx_guid; resolve_fx
\* rescans at most once, the rescan replaces the cache with a full scan of the
\* project, a write means that the cache entry of the target verifies, and
\* TargetNotFound is reported only after a rescan and only for a GUID that no FX
\* of the project has.
C27_ResolveVerifiesGuid ==
    (TickDone /\ last.tones # <<>>) =>
        LET target == LastTone.guid
        IN  /\ \A i \in DOMAIN last.writes : last.writes[i].guid = target
            /\ Cardinality(ApplyScans) <= 1
            /\ ApplyScans # {} => lookup = scan_project_instances(chain).lookup
            /\ last.writes # <<>> =>
                   /\ target \in DOMAIN lookup
                   /\ lookup[target] \in 1..Len(chain)
                   /\ chain[lookup[target]] = target
            /\ TargetNotFoundSent =>
                   /\ ApplyScans # {}
                   /\ target \notin SeqToSet(chain)
                   /\ last.writes = <<>>

\* A SetTone for an instance that the user had moved to another slot: the cached
\* slot held another FX, resolve_fx rescanned and the write went to the target.
C27_Witness ==
    /\ TickDone
    /\ last.tones # <<>>
    /\ ApplyScans # {}
    /\ last.writes # <<>>
    /\ last.wd = "unaffected"
    /\ Len(chain) >= 2
    /\ \A i \in DOMAIN last.writes : last.writes[i].guid = LastTone.guid

\* C28: a tick makes at most one full project rescan and applies at most one
\* SetTone (at most one Ack, and every write of the tick is to the target of the
\* last SetTone it drained).
C28_TickOneRescanOneSetTone ==
    TickDone =>
        /\ Len(last.scans) <= 1
        /\ Cardinality({i \in DOMAIN last.sends : last.sends[i].type = "ack"}) <= 1
        /\ last.writes # <<>> =>
               /\ last.tones # <<>>
               /\ \A i \in DOMAIN last.writes : last.writes[i].guid = LastTone.guid

\* C29: in a replace-active clean of a list whose only pitch/wow entries are at
\* one of the module's two bypass indices (only 3, or only 4), the module counts
\* as touched and the other bypass index is not appended with 0.0.
C29_SoleBypassIndexTouchesPitchWow ==
    (last.op = "clean" /\ last.mode = "replace_active") =>
        \A b \in SeqToSet(MODULES[1].bypass) :
            Indices(last.params) \cap SeqToSet(MODULES[1].params) = {b} =>
                \A out \in {last.server, last.client} :
                    \A other \in SeqToSet(MODULES[1].bypass) \ {b} :
                        P(other, 0) \notin SeqToSet(Appended(last.params, out))

\* The hierarchical sections: the dependent indices and the section-active
\* toggle each of them needs.
HierarchicalSections ==
    << [dependent |-> 53..82, toggle |-> 52],
       [dependent |-> 54..62, toggle |-> 53],
       [dependent |-> 64..72, toggle |-> 63],
       [dependent |-> 74..82, toggle |-> 73],
       [dependent |-> 84..99, toggle |-> 83],
       [dependent |-> 87..92, toggle |-> 86],
       [dependent |-> 94..99, toggle |-> 93] >>

\* C30: a replace-active clean of a list with a dependent parameter of a
\* hierarchical section gives a list with the section's toggle, at 1.0 when the
\* input did not set it and at the input's value otherwise; for the client's
\* clean and for the main loop's.
C30_SectionToggleEnsured ==
    (last.op = "clean" /\ last.mode = "replace_active") =>
        \A out \in {last.server, last.client} :
            \A s \in DOMAIN HierarchicalSections :
                LET sec == HierarchicalSections[s]
                IN  Indices(last.params) \cap sec.dependent # {} =>
                        \E i \in DOMAIN out :
                            /\ out[i].index = sec.toggle
                            /\ IF sec.toggle \in Indices(last.params)
                               THEN out[i] \in SeqToSet(last.params)
                               ELSE out[i].value = One

\* ------------------------------------------------- the enum probe (validator)

\* Normalized values of the probe are counted in 1/ProbeGrid: the sample points
\* of a probe with 16 samples are the even numbers, the midpoints of its
\* segments are whole numbers.
ProbeGrid == 32
\* probe_enum: samples.max(16)
MIN_ENUM_SAMPLES == 16

\* The format functions of the plugin, as the probe sees them: label "A" below
\* a, then up to b nothing ("gap"), blanks ("blank") or label "B" ("aba"), then
\* label "B" (or "A" again for "aba").
FormatFunctions ==
    {[kind |-> k, a |-> a, b |-> b] :
        k \in {"gap", "blank", "aba"}, a \in 0..(ProbeGrid + 1),
        b \in 0..(ProbeGrid + 1)}

\* ReaperApi::track_fx_format_param_value for one parameter.
track_fx_format_param_value(f, v) ==
    IF v < f.a THEN "A"
    ELSE IF v < f.b
         THEN (CASE f.kind = "gap" -> ""
                 [] f.kind = "blank" -> "  "
                 [] f.kind = "aba" -> " B ")
         ELSE IF f.kind = "aba" THEN "A" ELSE "B"

\* The sampling loop of probe_enum, at sample s: the segments closed so far, the
\* label of the open segment (NoLabel before the first non-empty label) and its
\* start.
NoLabel == [some |-> FALSE, label |-> ""]

RECURSIVE SegmentLoop(_, _, _, _, _, _)
SegmentLoop(f, samples, s, segments, last_label, seg_start) ==
    IF s > samples
    THEN IF last_label.some
         THEN Append(segments, [label |-> last_label.label, start |-> seg_start,
                                end |-> ProbeGrid])
         ELSE segments
    ELSE LET v == (s * ProbeGrid) \div samples
             label == trim(track_fx_format_param_value(f, v))
         IN  IF label = ""
             THEN SegmentLoop(f, samples, s + 1, segments, last_label, seg_start)
             ELSE IF ~last_label.some
             THEN SegmentLoop(f, samples, s + 1, segments,
                              [some |-> TRUE, label |-> label], v)
             ELSE IF last_label.label = label
             THEN SegmentLoop(f, samples, s + 1, segments, last_label, seg_start)
             ELSE SegmentLoop(f, samples, s + 1,
                              Append(segments,
                                     [label |-> last_label.label,
                                      start |-> seg_start, end |-> v]),
                              [some |-> TRUE, label |-> label], v)

\* The conversion loop of probe_enum: one option per label not seen before, at
\* the midpoint of the segment, until max_options are out.
RECURSIVE OptionLoop(_, _, _, _, _)
OptionLoop(segments, i, seen, out, max_options) ==
    IF i > Len(segments) THEN out
    ELSE LET label == trim(segments[i].label)
             mid == (segments[i].start + segments[i].end) \div 2
             out1 == Append(out, [value |-> mid, label |-> label])
         IN  IF label = "" \/ label \in seen
             THEN OptionLoop(segments, i + 1, seen, out, max_options)
             ELSE IF Len(out1) >= max_options THEN out1
             ELSE OptionLoop(segments, i + 1, seen \cup {label}, out1, max_options)

probe_enum(f, samples, max_options) ==
    LET n == IF samples < MIN_ENUM_SAMPLES THEN MIN_ENUM_SAMPLES ELSE samples
    IN  OptionLoop(SegmentLoop(f, n, 0, <<>>, NoLabel, 0), 1, {}, <<>>,
                   max_options)

\* The (samples, max_options) pairs probe_param_meta calls probe_enum with,
\* scaled down.
EnumProbeArgs ==
    {[samples |-> s, max_options |-> m] : s \in {8, 16}, m \in {1, 2, 3}}

\* The sidecar is idle; a format function and the probe's arguments are given.
ProbeInit ==
    /\ active = NoToken
    /\ netpc = "accept"
    /\ nextTok = 0
    /\ inbound = <<>>
    /\ outbound = <<>>
    /\ active_session_token = NoToken
    /\ validation_ready = FALSE
    /\ lookup = EmptyLookup
    /\ last_project_change_count = 0
    /\ last_track_count = -1
    /\ last_total_fx_count = -1
    /\ elapsed = PROJECT_CHANGED_DEBOUNCE
    /\ chain = <<>>
    /\ fxparams = [g \in Guids |-> <<>>]
    /\ proj_state = 0
    /\ reportEnabled = FALSE
    /\ lifecycle = Running
    /\ actor = ActorStart
    /\ index_remap = <<>>
    /\ param_cache = [g \in Guids |-> <<>>]
    /\ hsSeen = FALSE
    /\ firstMsg = "none"
    /\ nextCmd = 0
    /\ acked = {}
    /\ readySessions = {}
    /\ \E f \in FormatFunctions, args \in EnumProbeArgs :
           /\ f.a <= f.b
           /\ last = [op |-> "format", f |-> f, args |-> args]

ProbeEnum ==
    /\ last.op = "format"
    /\ last' = [op |-> "probe_enum", f |-> last.f, args |-> last.args,
                out |-> probe_enum(last.f, last.args.samples,
                                   last.args.max_options)]
    /\ PureUnchanged

NextProbe == ProbeEnum

SpecProbe == ProbeInit /\ [][NextProbe]_vars

\* C31: every option of the enum probe has the label the format function gives
\* at the option's value; no two options have the same label; there are at
\* most max_options options.
C31_EnumOptionValueYieldsLabel ==
    last.op = "probe_enum" =>
        /\ \A i \in DOMAIN last.out :
               trim(track_fx_format_param_value(last.f, last.out[i].value))
                   = last.out[i].label
        /\ \A i, j \in DOMAIN last.out :
               last.out[i].label = last.out[j].label => i = j
        /\ Len(last.out) <= last.args.max_options

\* C32: a tick that drained no SetTone (ClientConnected, RefreshInstances,
\* HandshakeAck, the handshake with its probes, the watchdog) leaves every
\* parameter value of every FX unchanged and calls track_fx_set_param not once;
\* a tick changes parameter values only by the writes of the SetTone it applies.
C32_ProbingNeverWrites ==
    [][ last'.op = "tick" =>
            /\ last'.tones = <<>> => (fxparams' = fxparams /\ last'.writes = <<>>)
            /\ fxparams' # fxparams =>
                   \E i \in DOMAIN last'.writes : last'.writes[i].ok ]_vars

\* A Handshake with a probed instance, in a tick without a SetTone, in a project
\* whose instance holds the values an earlier SetTone wrote.
C32_Witness ==
    /\ TickDone
    /\ last.tones = <<>>
    /\ last.probes >= 1
    /\ \E i \in DOMAIN last.sends : last.sends[i].type = "handshake"
    /\ \E g \in SeqToSet(chain) : fxparams[g] # <<>>

\* ------------------------------------------------------------------ unload

\* ServerMessage::Error { msg: "server shutting down", code: InternalError }
ShutdownError ==
    [type |-> "error", code |-> "internal_error", at |-> 0,
     msg |-> "server shutting down"]

\* A session after its Handshake, in a project with one instance; the network
\* thread is at the head of its loop.
ShutdownInit ==
    /\ active = 1
    /\ netpc = "head"
    /\ nextTok = MaxSessions
    /\ inbound = <<>>
    /\ outbound = <<>>
    /\ active_session_token = 1
    /\ reportEnabled = TRUE
    /\ lifecycle = Running
    /\ actor = ActorStart
    /\ index_remap = <<>>
    /\ param_cache = [g \in Guids |-> <<>>]
    /\ validation_ready = validate_parameter_map(reportEnabled)
    /\ chain = <<"F1">>
    /\ lookup = scan_project_instances(chain).lookup
    /\ last_project_change_count = 0
    /\ last_track_count = TrackCount
    /\ last_total_fx_count = Len(chain)
    /\ elapsed = PROJECT_CHANGED_DEBOUNCE
    /\ fxparams = [g \in Guids |-> <<>>]
    /\ proj_state = 0
    /\ hsSeen = TRUE
    /\ firstMsg = "handshake"
    /\ nextCmd = 0
    /\ acked = {}
    /\ readySessions = {1}
    /\ last = [op |-> "init"]

\* run_server, the head of the outer loop: the flag is set and the thread leaves
\* the loop, closing the socket of its client; or it is not, and accept() finds
\* no new connection.
NetLoopHead ==
    /\ netpc = "head"
    /\ IF lifecycle.net_shutdown
       THEN /\ netpc' = "stopped"
            /\ active' = NoToken
            /\ lifecycle' = [lifecycle EXCEPT !.closed_at_exit = active]
       ELSE /\ netpc' = "drain"
            /\ UNCHANGED <<active, lifecycle>>
    /\ last' = [op |-> "net_head"]
    /\ UNCHANGED <<nextTok, chanVars, mainVars, elapsed, dawVars, reportEnabled,
                   uiVars, actor, clientVars, nextCmd, histVars>>

\* run_server, the outbound drain: one message, written to the client.
NetDrainOne ==
    /\ netpc = "drain"
    /\ active # NoToken
    /\ outbound # <<>>
    /\ outbound' = Tail(outbound)
    /\ \E ok \in BOOLEAN :
        /\ last' = [op |-> "drain", msg |-> Head(outbound), to |-> active,
                    ok |-> ok]
        /\ IF ok
           THEN /\ Receive(Head(outbound))
                /\ lifecycle' = [lifecycle EXCEPT
                                   !.delivered = @ \/ Head(outbound) = ShutdownError]
                /\ UNCHANGED <<active, inbound, netpc>>
           ELSE /\ active' = NoToken
                /\ inbound' = try_send(inbound, InboundCap, ClientDisconnected)
                /\ netpc' = "read"
                /\ hsSeen' = FALSE
                /\ firstMsg' = "none"
                /\ UNCHANGED lifecycle
    /\ UNCHANGED <<nextTok, mainVars, elapsed, dawVars, reportEnabled, uiVars,
                   actor, nextCmd, histVars>>

\* run_server, the outbound drain is over: no client, or try_recv yields Empty.
NetDrainDone ==
    /\ netpc = "drain"
    /\ active = NoToken \/ outbound = <<>>
    /\ netpc' = "read"
    /\ last' = [op |-> "other"]
    /\ UNCHANGED <<active, nextTok, chanVars, mainVars, elapsed, dawVars,
                   reportEnabled, uiVars, sideVars, clientVars, nextCmd, histVars>>

\* run_server, the read: a timeout, or the client closes; without a client the
\* thread sleeps.
NetRead ==
    /\ netpc = "read"
    /\ netpc' = "head"
    /\ \E closes \in BOOLEAN :
        IF closes /\ active # NoToken
        THEN /\ active' = NoToken
             /\ inbound' = try_send(inbound, InboundCap, ClientDisconnected)
             /\ hsSeen' = FALSE
             /\ firstMsg' = "none"
             /\ last' = [op |-> "read", frame |-> [kind |-> "Close"],
                         direct |-> "none", queued |-> FALSE]
        ELSE /\ last' = [op |-> "other"]
             /\ UNCHANGED <<active, inbound, clientVars>>
    /\ UNCHANGED <<nextTok, outbound, mainVars, elapsed, dawVars, reportEnabled,
                   uiVars, sideVars, nextCmd, histVars>>

\* timer_proc, called by the DAW while the timer is registered: nothing when
\* SHUTDOWN is set, else one tick.
TimerProc ==
    /\ lifecycle.timer
    /\ IF lifecycle.SHUTDOWN
       THEN /\ last' = [op |-> "timer_skipped"]
            /\ UNCHANGED <<netVars, chanVars, mainVars, elapsed, dawVars,
                           reportEnabled, uiVars, sideVars, clientVars, nextCmd,
                           histVars>>
       ELSE Tick

\* shutdown(): SHUTDOWN.store(true)
ShutdownBegin ==
    /\ lifecycle.pc = "running"
    /\ lifecycle' = [lifecycle EXCEPT !.SHUTDOWN = TRUE, !.pc = "net_shutdown",
                                      !.client_at_start = active]
    /\ last' = [op |-> "shutdown", step |-> "flag"]
    /\ UNCHANGED <<netVars, chanVars, mainVars, elapsed, dawVars, reportEnabled,
                   uiVars, actor, clientVars, nextCmd, histVars>>

\* NetworkThread::shutdown: the thread's flag is set ...
ShutdownNetFlag ==
    /\ lifecycle.pc = "net_shutdown"
    /\ lifecycle' = [lifecycle EXCEPT !.net_shutdown = TRUE, !.pc = "join"]
    /\ last' = [op |-> "shutdown", step |-> "net_flag"]
    /\ UNCHANGED <<netVars, chanVars, mainVars, elapsed, dawVars, reportEnabled,
                   uiVars, actor, clientVars, nextCmd, histVars>>

\* ... and the thread is joined.
ShutdownJoin ==
    /\ lifecycle.pc = "join"
    /\ netpc = "stopped"
    /\ lifecycle' = [lifecycle EXCEPT !.pc = "deregister"]
    /\ last' = [op |-> "shutdown", step |-> "joined"]
    /\ UNCHANGED <<netVars, chanVars, mainVars, elapsed, dawVars, reportEnabled,
                   uiVars, actor, clientVars, nextCmd, histVars>>

\* shutdown(): plugin_register("-timer")
ShutdownDeregister ==
    /\ lifecycle.pc = "deregister"
    /\ lifecycle' = [lifecycle EXCEPT !.timer = FALSE, !.pc = "final"]
    /\ last' = [op |-> "shutdown", step |-> "deregistered"]
    /\ UNCHANGED <<netVars, chanVars, mainVars, elapsed, dawVars, reportEnabled,
                   uiVars, actor, clientVars, nextCmd, histVars>>

\* shutdown(): the final Error is try_sent on the outbound channel.
ShutdownFinalError ==
    /\ lifecycle.pc = "final"
    /\ outbound' = try_send(outbound, OutboundCap, ShutdownError)
    /\ lifecycle' = [lifecycle EXCEPT
                       !.pc = "done",
                       !.queued = IF Len(outbound) < OutboundCap THEN "sent"
                                  ELSE "full"]
    /\ last' = [op |-> "shutdown", step |-> "final_error"]
    /\ UNCHANGED <<netVars, inbound, mainVars, elapsed, dawVars, reportEnabled,
                   uiVars, actor, clientVars, nextCmd, histVars>>

NextShutdown ==
    \/ NetLoopHead
    \/ NetDrainOne
    \/ NetDrainDone
    \/ NetRead
    \/ TimerProc
    \/ UserRemoveFx
    \/ ShutdownBegin
    \/ ShutdownNetFlag
    \/ ShutdownJoin
    \/ ShutdownDeregister
    \/ ShutdownFinalError

SpecShutdown == ShutdownInit /\ [][NextShutdown]_vars

\* C33: after SHUTDOWN is set no tick runs; when shutdown() has returned the
\* timer is deregistered and the network thread has terminated; and a client
\* that was connected when shutdown() began, and whose socket the network thread
\* closed on its way out, has received the final Error, if the outbound channel
\* had room for it.
C33_ShutdownStopsAndNotifies ==
    /\ [][lifecycle.SHUTDOWN => last'.op # "tick"]_vars
    /\ [](lifecycle.pc = "done" =>
            /\ ~lifecycle.timer
            /\ netpc = "stopped"
            /\ (/\ lifecycle.client_at_start # NoToken
                /\ lifecycle.closed_at_exit = lifecycle.client_at_start
                /\ lifecycle.queued = "sent") => lifecycle.delivered)

\* C34: a Handshake is delivered only to the client of the session whose token
\* it carries: a message written to a client was produced for that client's
\* session.
C34_HandshakeReachesOwnSession ==
    (last.op = "drain" /\ last.ok /\ last.msg.type = "handshake") =>
        last.msg.tok = last.to

\* The last ClientConnected in the queue, when a ClientDisconnected follows it:
\* the session came and went before the tick that drains both.
CameAndWent(q) ==
    { q[i].tok : i \in { i \in DOMAIN q :
        /\ q[i].type = "ClientConnected"
        /\ \A j \in DOMAIN q : j > i => q[j].type # "ClientConnected"
        /\ \E j \in DOMAIN q : j > i /\ q[j].type = "ClientDisconnected" } }

\* C35: a tick that drains the ClientConnected of a session and, after it, the
\* ClientDisconnected of that session ends without an active session token and
\* without validation_ready, and sends no Handshake for the departed session.
C35_DepartedSessionLeavesNoState ==
    [][ (last'.op = "tick" /\ CameAndWent(inbound) # {}) =>
            /\ active_session_token' = NoToken
            /\ ~validation_ready'
            /\ \A i \in DOMAIN last'.sends :
                   ~(/\ last'.sends[i].type = "handshake"
                     /\ last'.sends[i].tok \in CameAndWent(inbound)) ]_vars

\* The watchdog's specification with the scheduling the code has: the DAW keeps
\* calling the timer callback, and time passes.
SpecWatchdogLive ==
    /\ Init
    /\ [][NextWatchdog]_vars
    /\ WF_vars(Tick)
    /\ WF_vars(ShortTimePasses)

\* The project changed since the watchdog last looked, and its track count or
\* its FX count is not the one the watchdog last saw.
StructuralChangePending ==
    /\ proj_state # last_project_change_count
    /\ \/ TrackCount # last_track_count
       \/ Len(chain) # last_total_fx_count

ProjectChangedBroadcast ==
    /\ TickDone
    /\ last.wd = "sent"
    /\ lookup = EmptyLookup
    /\ \E i \in DOMAIN last.sends : last.sends[i] = ProjectChanged

\* C36: a project change that alters the track count or the FX count is
\* eventually followed by a tick that sends ProjectChanged and clears the
\* FxLookup, also when it is observed within the debounce of the last
\* broadcast and nothing changes afterwards.
C36_StructuralChangeEventuallyBroadcast ==
    StructuralChangePending ~> ProjectChangedBroadcast

\* C37: for a ReplaceActive SetTone the client sent, the list the main loop
\* writes (its sanitize, then its replace-active clean) is the list the client
\* sent and stored in its cache.
C37_ServerPipelineAddsNothing ==
    (ToneSent /\ last.mode = "replace_active") =>
        LET sent == last.sends[1]
            s == sanitize_params(sent)
        IN  /\ param_cache["F1"] = sent
            /\ s.ok
            /\ apply_replace_active_cleaner(s.out) = sent

\* C38: the client's sanitize_params and the main loop's agree on every list:
\* both fail, or both succeed with the same output.
C38_SanitizeClientEqualsServer ==
    last.op = "sanitize" =>
        /\ last.client.ok = last.server.ok
        /\ last.server.ok => last.client.out = last.server.out

\* C39: a tick that selected a SetTone sends exactly one response for it, an Ack
\* with its command_id or an Error; the Ack only when every write of the tick
\* succeeded; a tick that selected none sends no response.
C39_OneResponsePerSetTone ==
    TickDone =>
        IF last.tones = <<>> THEN Responses(last.sends) = {}
        ELSE /\ Cardinality(Responses(last.sends)) = 1
             /\ \A i \in Responses(last.sends) :
                    last.sends[i].type = "ack" =>
                        /\ last.sends[i].id = LastTone.id
                        /\ \A w \in DOMAIN last.writes : last.writes[w].ok

\* A tick whose SetTone had a write fail after one that succeeded: its single
\* response is the Error.
C39_Witness ==
    /\ TickDone
    /\ last.tones # <<>>
    /\ \E w \in DOMAIN last.writes : ~last.writes[w].ok
    /\ \E w \in DOMAIN last.writes : last.writes[w].ok
    /\ \A i \in Responses(last.sends) : last.sends[i].type = "error"
    /\ Cardinality(Responses(last.sends)) = 1

\* ------------------------------------------------ the GUI's websocket actor

\* session_token: String::new(), the placeholder the UI commands are built with.
EmptyToken == -2
\* Number of connections the actor opens / capacity of its command queue.
MaxActorConns == 2
MaxActorQueue == 2

\* The commands the UI puts on the actor's queue.
UiConnect == [kind |-> "Connect"]
UiDisconnect == [kind |-> "Disconnect"]
SendToDll(cmd) == [kind |-> "SendToDll", cmd |-> cmd]
UiCommands ==
    {UiConnect, UiDisconnect,
     SendToDll([kind |-> "RefreshInstances", tok |-> EmptyToken, id |-> 0])}
    \cup {SendToDll([kind |-> "SetTone", tok |-> EmptyToken, id |-> i]) :
            i \in 1..2}

inject_token(cmd, token) == [cmd EXCEPT !.tok = token]

\* send_to_dll: the frames it writes; nothing without a session token.
send_to_dll(session_token, cmd) ==
    IF session_token = NoToken THEN <<>>
    ELSE <<inject_token(cmd, session_token)>>

\* recv_or_backlog, when something is there: the backlog first.
HasNext(a) == a.backlog # <<>> \/ a.rx # <<>>
NextCommand(a) == IF a.backlog # <<>> THEN Head(a.backlog) ELSE Head(a.rx)
AfterRecv(a) ==
    IF a.backlog # <<>> THEN [a EXCEPT !.backlog = Tail(@)]
    ELSE [a EXCEPT !.rx = Tail(@)]

\* The try_recv loop of coalesce_last_set_tone: later SetTones replace the one
\* kept, the first other command goes to the backlog and ends the loop.
RECURSIVE CoalesceLoop(_, _)
CoalesceLoop(a, kept) ==
    IF a.rx = <<>> THEN [a |-> a, cmd |-> kept]
    ELSE LET next == Head(a.rx)
             a1 == [a EXCEPT !.rx = Tail(@)]
         IN  IF next.kind = "SendToDll" /\ next.cmd.kind = "SetTone"
             THEN CoalesceLoop(a1, next.cmd)
             ELSE [a |-> [a1 EXCEPT !.backlog = Append(@, next)], cmd |-> kept]

\* The end of the 'conn loop: back to the outer loop.
BreakConn(a) ==
    [a EXCEPT !.pc = IF a.desired_connected THEN "connecting" ELSE "idle"]

\* Variant of the connection setup that keeps the session token of the previous
\* connection.
OpenConnection_KeepsToken(a) ==
    [a EXCEPT !.pc = "open", !.conn = @ + 1,
              !.pending_set_tone = NoCommand, !.hs = NoToken]

\* connect_async succeeded: the locals of the connection are fresh.
OpenConnection(a) ==
    [a EXCEPT !.pc = "open", !.conn = @ + 1, !.session_token = NoToken,
              !.pending_set_tone = NoCommand, !.hs = NoToken]

ActorUnchanged ==
    UNCHANGED <<netVars, chanVars, mainVars, elapsed, dawVars, reportEnabled,
                uiVars, lifecycle, clientVars, nextCmd, histVars>>

\* The GUI starts with an idle sidecar and an empty project.
ActorInit == Init /\ chain = <<>> /\ reportEnabled = FALSE

\* A UI command is put on the actor's queue.
UiSend ==
    /\ Len(actor.rx) < MaxActorQueue
    /\ \E c \in UiCommands : actor' = [actor EXCEPT !.rx = Append(@, c)]
    /\ last' = [op |-> "ui", sent |-> <<>>]
    /\ ActorUnchanged

\* run, not desired_connected: only Connect is heeded.
ActorIdle ==
    /\ actor.pc = "idle"
    /\ HasNext(actor)
    /\ actor' = IF NextCommand(actor).kind = "Connect"
                THEN [AfterRecv(actor) EXCEPT !.desired_connected = TRUE,
                                              !.pc = "connecting"]
                ELSE AfterRecv(actor)
    /\ last' = [op |-> "actor", step |-> "idle", sent |-> <<>>]
    /\ ActorUnchanged

\* run: connect_async succeeds (a failure leaves the actor where it is).
ActorConnect ==
    /\ actor.pc = "connecting"
    /\ actor.conn < MaxActorConns
    /\ actor' = OpenConnection(actor)
    /\ last' = [op |-> "actor", step |-> "connect", sent |-> <<>>]
    /\ ActorUnchanged

\* The 'conn loop, a UI command; a write to the socket succeeds or fails.
ActorCommand ==
    /\ actor.pc = "open"
    /\ HasNext(actor)
    /\ \E write_ok \in BOOLEAN :
        LET c == NextCommand(actor)
            a == AfterRecv(actor)
        IN  IF c.kind = "Connect"
            THEN /\ actor' = a
                 /\ last' = [op |-> "actor", step |-> "command", sent |-> <<>>]
            ELSE IF c.kind = "Disconnect"
            THEN /\ actor' = BreakConn([a EXCEPT !.desired_connected = FALSE])
                 /\ last' = [op |-> "actor", step |-> "command", sent |-> <<>>]
            ELSE IF c.cmd.kind # "SetTone"
            THEN LET frames == send_to_dll(a.session_token, c.cmd)
                 IN  /\ actor' = IF frames # <<>> /\ ~write_ok THEN BreakConn(a)
                                 ELSE a
                     /\ last' = [op |-> "actor", step |-> "command",
                                 sent |-> frames]
            ELSE LET co == CoalesceLoop(a, c.cmd)
                     frames == send_to_dll(co.a.session_token, co.cmd)
                 IN  IF co.a.session_token # NoToken
                     THEN /\ actor' = IF write_ok THEN co.a ELSE BreakConn(co.a)
                          /\ last' = [op |-> "actor", step |-> "command",
                                      sent |-> frames]
                     ELSE /\ actor' = [co.a EXCEPT !.pending_set_tone = co.cmd]
                          /\ last' = [op |-> "actor", step |-> "command",
                                      sent |-> <<>>]
    /\ ActorUnchanged

\* The 'conn loop, a server message: a Handshake with the token of this or of an
\* earlier session, another message, or the end of the stream.
ActorIncoming ==
    /\ actor.pc = "open"
    /\ \E m \in {Handshake(t, <<>>, FALSE) : t \in 1..actor.conn}
                \cup {ProjectChanged, Ack(1), Error("not_ready", 0),
                      [type |-> "closed"]} :
        IF m.type = "handshake"
        THEN LET a == [actor EXCEPT !.session_token = m.tok, !.hs = m.tok]
             IN  /\ actor' = [a EXCEPT !.pending_set_tone = NoCommand]
                 /\ last' = [op |-> "actor", step |-> "incoming",
                             sent |-> <<[kind |-> "HandshakeAck", tok |-> m.tok,
                                         id |-> 0]>>
                                     \o (IF a.pending_set_tone # NoCommand
                                         THEN send_to_dll(a.session_token,
                                                          a.pending_set_tone)
                                         ELSE <<>>)]
        ELSE IF m.type = "closed"
        THEN /\ actor' = BreakConn(actor)
             /\ last' = [op |-> "actor", step |-> "incoming", sent |-> <<>>]
        ELSE /\ actor' = actor
             /\ last' = [op |-> "actor", step |-> "incoming", sent |-> <<>>]
    /\ ActorUnchanged

NextActor ==
    \/ UiSend
    \/ ActorIdle
    \/ ActorConnect
    \/ ActorCommand
    \/ ActorIncoming

SpecActor == ActorInit /\ [][NextActor]_vars

\* C40: every command the actor writes on a connection carries the token of the
\* last Handshake it received on that connection: it writes none before the
\* first Handshake of the connection, and none with the placeholder token or
\* without a token.
C40_CommandsCarryCurrentToken ==
    last.op = "actor" =>
        \A i \in DOMAIN last.sent :
            /\ actor.hs # NoToken
            /\ last.sent[i].tok = actor.hs
            /\ last.sent[i].tok \notin {EmptyToken, NoToken}

\* On its second connection the actor, holding the token of the Handshake it got
\* there, writes a SetTone with that token.
C40_Witness ==
    /\ last.op = "actor"
    /\ actor.conn = 2
    /\ \E i \in DOMAIN last.sent :
           /\ last.sent[i].kind = "SetTone"
           /\ last.sent[i].tok = actor.hs
           /\ actor.hs = 2

====
